---- MODULE Spec2Model ----
(***************************************************************************)
(* Banner composition engine of telegram_overlay_bot: word wrapping,       *)
(* highlight detection, stack layout / anchoring, compositing order and    *)
(* the HTTP render entry points, as implemented in src/main.py,            *)
(* src/app.py and src/bot.py.                                              *)
(*                                                                         *)
(* Text is a sequence of characters.  A character is a one-element token:  *)
(*   "a"  a narrow Latin letter          "W"  a wide Latin letter          *)
(*   " "  a space                        "R"  an Arabic letter (U+06xx)    *)
(*   "P"  an Arabic presentation form (U+FExx, what reshaping produces)    *)
(*   "H"  a Hebrew letter (U+05xx), which reshaping leaves alone          *)
(*   "ELL" the ellipsis glyph U+2026                                       *)
(*   "M1","M2","M3" the three characters of the literal in src/app.py:62   *)
(* plus the letters, digits and "%" of the highlight vocabulary.           *)
(***************************************************************************)
EXTENDS Integers, Sequences, FiniteSets, TLC

VARIABLES wcall, hcall, ccall, rcall, fcall, LAYOUTS, styles, conv, bot

vars == <<wcall, hcall, ccall, rcall, fcall, LAYOUTS, styles, conv, bot>>

(***************************************************************************)
(* Bounds of the model.                                                    *)
(***************************************************************************)
MaxLen == 4
MaxWidth == 4
MaxLines == 2
MaxWords == 3

(***************************************************************************)
(* Generic sequence helpers (Python str semantics).                        *)
(***************************************************************************)
RECURSIVE SeqsUpTo(_, _)
SeqsUpTo(S, n) ==
    IF n = 0 THEN {<<>>}
    ELSE LET shorter == SeqsUpTo(S, n - 1)
         IN shorter \cup {Append(s, c) : s \in {t \in shorter : Len(t) = n - 1}, c \in S}

RECURSIVE Reverse(_)
Reverse(s) == IF s = <<>> THEN <<>> ELSE Append(Reverse(Tail(s)), Head(s))

IsSpace(c) == c = " "

RECURSIVE LStrip(_)
LStrip(s) == IF s # <<>> /\ IsSpace(Head(s)) THEN LStrip(Tail(s)) ELSE s

strip(s) == Reverse(LStrip(Reverse(LStrip(s))))

\* str.split(): the maximal runs of non-space characters, in order.
RECURSIVE SplitFrom(_, _, _)
SplitFrom(s, cur, acc) ==
    IF s = <<>> THEN (IF cur = <<>> THEN acc ELSE Append(acc, cur))
    ELSE IF IsSpace(Head(s))
         THEN SplitFrom(Tail(s), <<>>, IF cur = <<>> THEN acc ELSE Append(acc, cur))
         ELSE SplitFrom(Tail(s), Append(cur, Head(s)), acc)

split(s) == SplitFrom(s, <<>>, <<>>)

\* " ".join(lines)
RECURSIVE join(_)
join(lines) ==
    IF lines = <<>> THEN <<>>
    ELSE IF Len(lines) = 1 THEN lines[1]
    ELSE lines[1] \o <<" ">> \o join(Tail(lines))

DropLast(s) == SubSeq(s, 1, Len(s) - 1)

(***************************************************************************)
(* Fonts and measuring.  A font is [size, path]; every character advances  *)
(* by a per-character number of units times the font's unit advance.       *)
(***************************************************************************)
CharUnits(c) == IF c = "W" THEN 2 ELSE 1

Advance(font) == font.size \div 2

RECURSIVE Units(_)
Units(s) == IF s = <<>> THEN 0 ELSE CharUnits(Head(s)) + Units(Tail(s))

text_width(text, font) == Units(text) * Advance(font)

(***************************************************************************)
(* Text normalisation.                                                     *)
(***************************************************************************)
IsArabic(c) == c = "R"

HasArabic(s) == \E i \in 1..Len(s) : IsArabic(s[i])

HasLatin(s) == \E i \in 1..Len(s) : s[i] \in {"a", "W"}

\* arabic_reshaper.reshape: Arabic letters become presentation forms.
reshape(s) == [i \in 1..Len(s) |-> IF IsArabic(s[i]) THEN "P" ELSE s[i]]

\* bidi get_display on a purely right-to-left paragraph: visual order.
get_display(s) == Reverse(s)

normalize_text(text) ==
    IF HasArabic(text) THEN get_display(reshape(text)) ELSE text

(***************************************************************************)
(* Word wrapping.                                                          *)
(***************************************************************************)
\* A faulty greedy loop: the width test looks at the line before the
\* word is added instead of the candidate line.
RECURSIVE WrapLoopMeasuresCurr(_, _, _, _, _)
WrapLoopMeasuresCurr(words, curr, lines, font, max_width) ==
    IF words = <<>> THEN (IF curr # <<>> THEN Append(lines, curr) ELSE lines)
    ELSE LET w == Head(words)
             test == strip(curr \o <<" ">> \o w)
         IN IF text_width(curr, font) <= max_width \/ curr = <<>>
            THEN WrapLoopMeasuresCurr(Tail(words), test, lines, font, max_width)
            ELSE WrapLoopMeasuresCurr(Tail(words), w, Append(lines, curr), font, max_width)

\* The greedy loop of wrap_with_limits (main.py 357-370, app.py 40-53).
RECURSIVE WrapLoop(_, _, _, _, _)
WrapLoop(words, curr, lines, font, max_width) ==
    IF words = <<>> THEN (IF curr # <<>> THEN Append(lines, curr) ELSE lines)
    ELSE LET w == Head(words)
             test == strip(curr \o <<" ">> \o w)
         IN IF text_width(test, font) <= max_width \/ curr = <<>>
            THEN WrapLoop(Tail(words), test, lines, font, max_width)
            ELSE WrapLoop(Tail(words), w, Append(lines, curr), font, max_width)

\* main.py: the function returns right after the greedy loop (line 373).
wrap_with_limits_main(text, font, max_width, max_lines, ellipsis) ==
    WrapLoop(split(normalize_text(text)), <<>>, <<>>, font, max_width)

\* The ellipsis literals.
EllMain == <<"ELL">>
EllApp == <<"M1", "M2", "M3">>

\* while text_width(last + suffix) > max_width and len(last) > 0: last = last[:-1]
RECURSIVE StripToFit(_, _, _, _)
StripToFit(last, suffix, font, max_width) ==
    IF text_width(last \o suffix, font) > max_width /\ Len(last) > 0
    THEN StripToFit(DropLast(last), suffix, font, max_width)
    ELSE last

apply_ellipsis(lines, ell, font, max_width) ==
    LET n == Len(lines)
        fitted == StripToFit(lines[n], <<>>, font, max_width)
        last == StripToFit(fitted, ell, font, max_width)
    IN IF last # lines[n] THEN [lines EXCEPT ![n] = last \o ell]
       ELSE IF text_width(last, font) > max_width THEN [lines EXCEPT ![n] = ell]
       ELSE lines

truncate_lines(lines, max_lines) ==
    IF max_lines # 0 /\ Len(lines) > max_lines THEN SubSeq(lines, 1, max_lines) ELSE lines

\* app.py: greedy loop, truncation to max_lines, ellipsis on the last line.
wrap_with_limits_app(text, font, max_width, max_lines, ellipsis) ==
    LET lines == truncate_lines(
                    WrapLoop(split(normalize_text(text)), <<>>, <<>>, font, max_width),
                    max_lines)
    IN IF ellipsis /\ lines # <<>> THEN apply_ellipsis(lines, EllApp, font, max_width)
       ELSE lines

\* bot.py wrap_text: no normalisation, a word starts a line when it does not fit.
RECURSIVE WrapTextLoop(_, _, _, _, _)
WrapTextLoop(words, current_line, lines, font, max_width) ==
    IF words = <<>>
    THEN (IF current_line # <<>> THEN Append(lines, current_line) ELSE lines)
    ELSE LET word == Head(words)
             test_line == current_line \o (IF current_line # <<>> THEN <<" ">> ELSE <<>>) \o word
         IN IF text_width(test_line, font) <= max_width
            THEN WrapTextLoop(Tail(words), test_line, lines, font, max_width)
            ELSE WrapTextLoop(Tail(words), word,
                              IF current_line # <<>> THEN Append(lines, current_line) ELSE lines,
                              font, max_width)

\* A faulty wrap_text: the words are joined on one line whatever the width.
wrap_text_one_line(text, font, max_width) ==
    IF split(text) = <<>> THEN <<>> ELSE <<join(split(text))>>

wrap_text(text, font, max_width) == WrapTextLoop(split(text), <<>>, <<>>, font, max_width)

(***************************************************************************)
(* Highlight detection.  A line is a sequence of words joined by single    *)
(* spaces (what the wrap functions return); each word is one of the kinds  *)
(* below.  A match of a pattern starts at a word start, because every      *)
(* pattern starts with \b followed by a digit or a keyword letter.         *)
(***************************************************************************)
WordKinds == {"NUM", "PCT", "GLUED", "KW", "RUB", "FREE", "GIFT", "SALE", "ISO", "NAME", "PLAIN"}

WordText(k) ==
    CASE k = "NUM"   -> <<"5", "0">>                 \* digits
      [] k = "PCT"   -> <<"3", "0", "%">>            \* digits and a percent sign
      [] k = "GLUED" -> <<"5", "%", "x">>            \* a percent sign followed by a letter
      [] k = "KW"    -> <<"o", "f", "f">>            \* off | discount | skidka
      [] k = "RUB"   -> <<"r", "u", "b">>            \* the rouble abbreviation
      [] k = "FREE"  -> <<"f", "r", "e", "e">>
      [] k = "GIFT"  -> <<"g", "i", "f", "t">>
      [] k = "SALE"  -> <<"s", "a", "l", "e">>
      [] k = "ISO"   -> <<"A", "E", "D">>            \* an ISO currency code of the list
      [] k = "NAME"  -> <<"s", "o", "l">>            \* a currency name of the list
      [] OTHER       -> <<"n", "o", "w">>            \* any other word

LineText(kinds) == join([i \in 1..Len(kinds) |-> WordText(kinds[i])])

\* 0-based offset of the first character of word i, and the offset after its last.
RECURSIVE WordStart(_, _)
WordStart(kinds, i) ==
    IF i = 1 THEN 0 ELSE WordStart(kinds, i - 1) + Len(WordText(kinds[i - 1])) + 1

WordEnd(kinds, i) == WordStart(kinds, i) + Len(WordText(kinds[i]))

Patterns == 1..12

NoMatch == <<>>

\* keyword \s* \d+ ... \b : how far the match reaches into the number word.
NumberTail(kinds, i, through_percent) ==
    CASE kinds[i] = "NUM"   -> WordEnd(kinds, i)
      [] kinds[i] = "PCT"   -> WordEnd(kinds, i) - 1
      [] kinds[i] = "GLUED" -> WordStart(kinds, i) + (IF through_percent THEN 2 ELSE 1)
      [] OTHER              -> -1

\* \d+ \s* keyword \b
NumberThen(kinds, i, kw) ==
    IF kinds[i] = "NUM" /\ i < Len(kinds) /\ kinds[i + 1] = kw
    THEN <<WordStart(kinds, i), WordEnd(kinds, i + 1)>> ELSE NoMatch

\* keyword \s* \d+ ... \b
KeywordThenNumber(kinds, i, kw, through_percent) ==
    IF kinds[i] = kw /\ i < Len(kinds) /\ NumberTail(kinds, i + 1, through_percent) >= 0
    THEN <<WordStart(kinds, i), NumberTail(kinds, i + 1, through_percent)>> ELSE NoMatch

SingleWord(kinds, i, kw) ==
    IF kinds[i] = kw THEN <<WordStart(kinds, i), WordEnd(kinds, i)>> ELSE NoMatch

\* The match of pattern p that starts at word i, as <<start, end>>, or NoMatch.
MatchAt(p, kinds, i) ==
    CASE p = 1 ->  \* \b\d+%?\s*(?:skidka|discount|off|%)\b
            IF kinds[i] \in {"NUM", "PCT"} /\ i < Len(kinds) /\ kinds[i + 1] = "KW"
            THEN <<WordStart(kinds, i), WordEnd(kinds, i + 1)>>
            ELSE IF kinds[i] = "GLUED" THEN <<WordStart(kinds, i), WordStart(kinds, i) + 2>>
            ELSE NoMatch
      [] p = 2 ->  \* \b(?:skidka|discount|off)\s*\d+%?\b
            KeywordThenNumber(kinds, i, "KW", TRUE)
      [] p = 3 ->  \* \b\d+\s*rub?\b
            NumberThen(kinds, i, "RUB")
      [] p = 4 ->  \* \b\d+\s*(?:<rouble>|<tenge>|$|<euro>)\b : "$" is the end of the line
            IF kinds[i] = "NUM" /\ i = Len(kinds)
            THEN <<WordStart(kinds, i), WordEnd(kinds, i)>> ELSE NoMatch
      [] p = 5 -> SingleWord(kinds, i, "FREE")
      [] p = 6 -> SingleWord(kinds, i, "GIFT")
      [] p = 7 -> SingleWord(kinds, i, "SALE")
      [] p = 8 ->  \* \b\d+%\b
            IF kinds[i] = "GLUED" THEN <<WordStart(kinds, i), WordStart(kinds, i) + 2>>
            ELSE NoMatch
      [] p = 9 ->  \* amount, ISO code
            NumberThen(kinds, i, "ISO")
      [] p = 10 -> \* ISO code, amount
            KeywordThenNumber(kinds, i, "ISO", FALSE)
      [] p = 11 -> \* amount, currency name
            NumberThen(kinds, i, "NAME")
      [] OTHER ->  \* currency name, amount
            KeywordThenNumber(kinds, i, "NAME", FALSE)

\* re.finditer(pattern, text): the matches of one pattern, left to right.
RECURSIVE finditer(_, _, _)
finditer(p, kinds, i) ==
    IF i > Len(kinds) THEN <<>>
    ELSE LET m == MatchAt(p, kinds, i)
         IN IF m = NoMatch THEN finditer(p, kinds, i + 1)
            ELSE <<[start |-> m[1], end |-> m[2], pattern |-> p]>> \o finditer(p, kinds, i + 1)

\* detect_highlights: for each pattern in list order, every match of it.
RECURSIVE detect_from(_, _)
detect_from(p, kinds) ==
    IF p > 12 THEN <<>> ELSE finditer(p, kinds, 1) \o detect_from(p + 1, kinds)

detect_highlights(kinds) == detect_from(1, kinds)

(***************************************************************************)
(* Inputs of the wrap calls.                                               *)
(***************************************************************************)
WrapChars == {"a", "W", " ", "R"}

\* Texts are Latin or Arabic, not mixed.
Texts == {t \in SeqsUpTo(WrapChars, MaxLen) : ~(HasArabic(t) /\ HasLatin(t))}

UnitFont == [size |-> 2, path |-> "Fonts/YangoGroupText-Medium.ttf"]

NoWrapCall == [impl |-> "none", text |-> <<>>, max_width |-> 0, max_lines |-> 0,
               ellipsis |-> FALSE, lines |-> <<>>]

WrapWithLimitsMain ==
    /\ wcall.impl = "none"
    /\ \E t \in Texts, mw \in 1..MaxWidth, ml \in 0..MaxLines, e \in BOOLEAN :
        wcall' = [impl |-> "main", text |-> t, max_width |-> mw, max_lines |-> ml,
                  ellipsis |-> e,
                  lines |-> wrap_with_limits_main(t, UnitFont, mw, ml, e)]
    /\ UNCHANGED <<hcall, ccall, rcall, fcall, LAYOUTS, styles, conv, bot>>

WrapWithLimitsApp ==
    /\ wcall.impl = "none"
    /\ \E t \in Texts, mw \in 1..MaxWidth, ml \in 0..MaxLines, e \in BOOLEAN :
        wcall' = [impl |-> "app", text |-> t, max_width |-> mw, max_lines |-> ml,
                  ellipsis |-> e,
                  lines |-> wrap_with_limits_app(t, UnitFont, mw, ml, e)]
    /\ UNCHANGED <<hcall, ccall, rcall, fcall, LAYOUTS, styles, conv, bot>>

WrapText ==
    /\ wcall.impl = "none"
    /\ \E t \in Texts, mw \in 1..MaxWidth :
        wcall' = [impl |-> "bot", text |-> t, max_width |-> mw, max_lines |-> 0,
                  ellipsis |-> FALSE,
                  lines |-> wrap_text(t, UnitFont, mw)]
    /\ UNCHANGED <<hcall, ccall, rcall, fcall, LAYOUTS, styles, conv, bot>>

\* The caller takes the lines; the next call starts from scratch.
WrapReturn ==
    /\ wcall.impl # "none"
    /\ wcall' = NoWrapCall
    /\ UNCHANGED <<hcall, ccall, rcall, fcall, LAYOUTS, styles, conv, bot>>

(***************************************************************************)
(* Calls of detect_highlights on one line.                                 *)
(***************************************************************************)
Lines == SeqsUpTo(WordKinds, MaxWords)

\* text[first:last] of Python, offsets from 0.
Slice(text, first, last) == SubSeq(text, first + 1, last)

\* One draw.text call of draw_text_with_highlights: the text, the x it is
\* drawn at and whether it is drawn on a highlight background.
Segment(text, x, highlighted) == [text |-> text, x |-> x, highlighted |-> highlighted]

\* The loop over the highlights and the remaining text after it; i is the
\* next highlight, current_x and last_end are the loop's variables.
RECURSIVE draw_highlights_from(_, _, _, _, _, _)
draw_highlights_from(text, highlights, font, i, current_x, last_end) ==
    IF i > Len(highlights)
    THEN IF last_end < Len(text)
         THEN <<Segment(Slice(text, last_end, Len(text)), current_x, FALSE)>>
         ELSE <<>>
    ELSE LET hl == highlights[i]
             before_text == Slice(text, last_end, hl.start)
             highlight_text == Slice(text, hl.start, hl.end)
             before == IF hl.start > last_end
                       THEN <<Segment(before_text, current_x, FALSE)>> ELSE <<>>
             x == IF hl.start > last_end
                  THEN current_x + text_width(before_text, font) ELSE current_x
         IN  before \o <<Segment(highlight_text, x, TRUE)>>
                 \o draw_highlights_from(text, highlights, font, i + 1,
                         x + text_width(highlight_text, font), hl.end)

\* draw_text_with_highlights(draw, text, font, x, y, ...): the draw.text
\* calls it makes, in order.
draw_text_with_highlights(kinds, font, x) ==
    LET text == LineText(kinds)
        highlights == detect_highlights(kinds)
    IN  IF strip(text) = <<>> THEN <<>>
        ELSE IF highlights = <<>> THEN <<Segment(text, x, FALSE)>>
        ELSE draw_highlights_from(text, highlights, font, 1, x, 0)

NoHighlightCall == [done |-> FALSE, fn |-> "none", line |-> <<>>, spans |-> <<>>, drawn |-> <<>>]

DetectHighlights ==
    /\ ~hcall.done
    /\ \E l \in Lines :
        hcall' = [done |-> TRUE, fn |-> "detect_highlights", line |-> l,
                  spans |-> detect_highlights(l), drawn |-> <<>>]
    /\ UNCHANGED <<wcall, ccall, rcall, fcall, LAYOUTS, styles, conv, bot>>

DrawTextWithHighlights ==
    /\ ~hcall.done
    /\ \E l \in Lines :
        hcall' = [done |-> TRUE, fn |-> "draw_text_with_highlights", line |-> l,
                  spans |-> detect_highlights(l),
                  drawn |-> draw_text_with_highlights(l, UnitFont, 0)]
    /\ UNCHANGED <<wcall, ccall, rcall, fcall, LAYOUTS, styles, conv, bot>>

\* draw_text_with_highlights has consumed the spans.
HighlightReturn ==
    /\ hcall.done
    /\ hcall' = NoHighlightCall
    /\ UNCHANGED <<wcall, ccall, rcall, fcall, LAYOUTS, styles, conv, bot>>

(***************************************************************************)
(* The HTTP render entry points.  A request carries image bytes that PIL   *)
(* can decode ("valid"), bytes it cannot ("malformed") or, for the JSON    *)
(* endpoints, no image field ("missing"); compose_raises says whether the  *)
(* render itself throws.  A response is [status, body, compose_called,     *)
(* file_written, file_removed].                                            *)
(***************************************************************************)
AVAILABLE_SIZES == {"1200x1200", "1200x1500", "1200x628", "1080x1920"}

\* The keys of the banner-size catalog.
SIZES == AVAILABLE_SIZES

Response(status, body, composed, written, removed) ==
    [status |-> status, body |-> body, compose_called |-> composed,
     file_written |-> written, file_removed |-> removed]

\* compose, out.save and the file response, inside the handler's try block.
RenderAndSave(compose_raises, as_file) ==
    IF compose_raises THEN Response(500, "error", TRUE, FALSE, FALSE)
    ELSE IF as_file THEN Response(200, "image", TRUE, TRUE, FALSE)
    ELSE Response(200, "image", TRUE, TRUE, TRUE)

\* A faulty /render: the banner-size check is skipped.
render_image_no_size_check(image, banner_size, compose_raises) ==
    IF image # "valid" THEN Response(500, "error", FALSE, FALSE, FALSE)
    ELSE RenderAndSave(compose_raises, TRUE)

\* main.py POST /render: decoding happens inside the outer try.
render_image(image, banner_size, compose_raises) ==
    IF image # "valid" THEN Response(500, "error", FALSE, FALSE, FALSE)
    ELSE IF banner_size \notin SIZES THEN Response(400, "error", FALSE, FALSE, FALSE)
    ELSE RenderAndSave(compose_raises, TRUE)

\* main.py POST /render-json.
render_image_json(image, banner_size, return_file, compose_raises) ==
    IF image = "missing" THEN Response(400, "error", FALSE, FALSE, FALSE)
    ELSE IF image = "malformed" THEN Response(400, "error", FALSE, FALSE, FALSE)
    ELSE IF banner_size \notin SIZES THEN Response(400, "error", FALSE, FALSE, FALSE)
    ELSE RenderAndSave(compose_raises, return_file)

\* main.py POST /render-json-file.
render_image_json_file(image, banner_size, compose_raises) ==
    IF image = "missing" THEN Response(400, "error", FALSE, FALSE, FALSE)
    ELSE IF image = "malformed" THEN Response(400, "error", FALSE, FALSE, FALSE)
    ELSE IF banner_size \notin SIZES THEN Response(400, "error", FALSE, FALSE, FALSE)
    ELSE RenderAndSave(compose_raises, TRUE)

\* app.py POST /render: no try block, an exception becomes the server's 500.
render(image, banner_size, compose_raises) ==
    IF image # "valid" THEN Response(500, "error", FALSE, FALSE, FALSE)
    ELSE IF banner_size \notin SIZES THEN Response(400, "error", FALSE, FALSE, FALSE)
    ELSE RenderAndSave(compose_raises, TRUE)

BannerInputs == SIZES \cup {"300x250", ""}

NoRenderCall == [endpoint |-> "none", image |-> "valid", banner_size |-> "", return_file |-> FALSE,
                 compose_raises |-> FALSE, response |-> Response(0, "none", FALSE, FALSE, FALSE)]

RenderCall(endpoint, image, banner_size, return_file, compose_raises, response) ==
    [endpoint |-> endpoint, image |-> image, banner_size |-> banner_size,
     return_file |-> return_file, compose_raises |-> compose_raises, response |-> response]

RenderImage ==
    /\ rcall.endpoint = "none"
    /\ \E image \in {"valid", "malformed"}, b \in BannerInputs, cr \in BOOLEAN :
        rcall' = RenderCall("main:/render", image, b, TRUE, cr, render_image(image, b, cr))
    /\ UNCHANGED <<wcall, hcall, ccall, fcall, LAYOUTS, styles, conv, bot>>

RenderImageJson ==
    /\ rcall.endpoint = "none"
    /\ \E image \in {"valid", "malformed", "missing"}, b \in BannerInputs, rf \in BOOLEAN,
          cr \in BOOLEAN :
        rcall' = RenderCall("main:/render-json", image, b, rf, cr,
                            render_image_json(image, b, rf, cr))
    /\ UNCHANGED <<wcall, hcall, ccall, fcall, LAYOUTS, styles, conv, bot>>

RenderImageJsonFile ==
    /\ rcall.endpoint = "none"
    /\ \E image \in {"valid", "malformed", "missing"}, b \in BannerInputs, cr \in BOOLEAN :
        rcall' = RenderCall("main:/render-json-file", image, b, TRUE, cr,
                            render_image_json_file(image, b, cr))
    /\ UNCHANGED <<wcall, hcall, ccall, fcall, LAYOUTS, styles, conv, bot>>

AppRender ==
    /\ rcall.endpoint = "none"
    /\ \E image \in {"valid", "malformed"}, b \in BannerInputs, cr \in BOOLEAN :
        rcall' = RenderCall("app:/render", image, b, TRUE, cr, render(image, b, cr))
    /\ UNCHANGED <<wcall, hcall, ccall, fcall, LAYOUTS, styles, conv, bot>>

\* The response has been sent.
RenderRespond ==
    /\ rcall.endpoint # "none"
    /\ rcall' = NoRenderCall
    /\ UNCHANGED <<wcall, hcall, ccall, fcall, LAYOUTS, styles, conv, bot>>

(***************************************************************************)
(* The catalogs that the programs load from config.json at import time.    *)
(* config.json is data: the catalogs below are a bounded family of its     *)
(* possible contents.  A line_height factor f is carried as the integer    *)
(* 10 * f (tenths); None is the string "None".                             *)
(***************************************************************************)
AVAILABLE_LAYOUTS == {"Yango_photo", "Yango_pro_app", "Yango_app", "Yango_pro_photo",
                      "Yango_pro_Red", "Yango_Red"}

AVAILABLE_LANGUAGES == {"English", "French", "Portuguese", "Arabic", "Spanish",
                        "Azerbaijani", "Urdu"}

BlockKinds == {"headline", "subline", "disclaimer"}

\* dict.get(key, default)
Get(d, key, default) == IF key \in DOMAIN d THEN d[key] ELSE default

\* The empty dict.
EmptyDict == <<>>

\* bg.size: every caller resizes the background to SIZES[banner_key] first.
CanvasWidth(banner_key) == IF banner_key = "1080x1920" THEN 1080 ELSE 1200

CanvasHeight(banner_key) ==
    CASE banner_key = "1200x1200" -> 1200
      [] banner_key = "1200x1500" -> 1500
      [] banner_key = "1200x628"  -> 628
      [] banner_key = "1080x1920" -> 1920

BASE_STYLE ==
    [headline |->
        [font |-> "Fonts/YangoGroupHeadline-HeavyArabic.ttf",
         size |-> [b \in SIZES |-> IF b = "1200x628" THEN 64 ELSE 96],
         line_height |-> 11, max_lines |-> 2, ellipsis |-> TRUE, align |-> "center"],
     subline |->
        [font |-> "Fonts/YangoGroupText-Medium.ttf",
         size |-> [b \in SIZES |-> IF b = "1200x628" THEN 32 ELSE 48],
         line_height |-> 12],
     disclaimer |->
        [font |-> "Fonts/YangoGroupText-Medium.ttf",
         size |-> [b \in SIZES |-> IF b = "1200x628" THEN 16 ELSE 24],
         line_height |-> 12, max_lines |-> 1, ellipsis |-> FALSE, align |-> "right"]]

YANGO_PRO_APP_STYLE ==
    [headline |->
        [font |-> "Fonts/YangoGroupHeadline-HeavyArabic.ttf",
         size |-> [b \in SIZES |-> 88],
         line_height |-> 10,
         left_margin |-> ("1200x1200" :> 120)],
     subline |->
        [font |-> "Fonts/YangoGroupText-Medium.ttf",
         size |-> [b \in SIZES |-> 40],
         line_height |-> 12]]

Anchors == {"bottom_left", "bottom_center", "center", "top_left", "top_right",
            "bottom_right", "middle"}

TextStacks == {<<"headline", "subline", "disclaimer">>,
               <<"headline", "subline">>,
               <<"disclaimer", "headline">>}

\* A layout profile as config.json writes it out in full ...
PlainProfile(anchor, text_stack) ==
    [padding |-> [top |-> 64, left |-> 64, right |-> 80, bottom |-> 50],
     anchor |-> anchor,
     text_stack |-> text_stack,
     gap |-> [default |-> 24]]

\* ... and one with another bottom padding, special gaps and no default
\* gap, and style overrides for the headline.
TunedProfile(anchor, text_stack) ==
    [padding |-> [top |-> 64, left |-> 64, right |-> 80, bottom |-> 64],
     anchor |-> anchor,
     text_stack |-> text_stack,
     gap |-> [special |-> << <<"headline", "subline", 12, "1200x1200">>,
                             <<"headline", "subline", 16, "None">> >>],
     styleOverrides |->
        [headline |-> [size |-> ("1200x1200" :> 80), line_height |-> 12]]]

\* Every anchor with the full text stack, and every text stack with the
\* bottom_left anchor, each as a plain and as a tuned profile.
AnchorsAndStacks ==
    {<<a, <<"headline", "subline", "disclaimer">> >> : a \in Anchors}
        \cup {<<"bottom_left", s>> : s \in TextStacks}

Profiles ==
    {PlainProfile(p[1], p[2]) : p \in AnchorsAndStacks}
        \cup {TunedProfile(p[1], p[2]) : p \in AnchorsAndStacks}

\* The layout names either program looks up: those of main.py and the
\* default of app.py.
CatalogKeys == AVAILABLE_LAYOUTS \cup {"L1_basic"}

Catalogs == {[k \in CatalogKeys |-> p] : p \in Profiles}

(***************************************************************************)
(* Fonts and style resolution.                                             *)
(***************************************************************************)
load_font(path, size) == [size |-> size, path |-> path]

load_arabic_font_with_fallback(size) ==
    [size |-> size, path |-> "Fonts/YangoGroupHeadline-HeavyArabic.ttf"]

\* font.getmetrics(): ascent + descent
FontMetrics(font) == font.size + font.size \div 4

\* int(math.ceil((ascent + descent) * lh_factor)), lh_factor in tenths
line_height_px(font, lh_factor) == (FontMetrics(font) * lh_factor + 9) \div 10

\* draw.textbbox((0, 0), line, font=font)[3], font.getbbox(text)[3]
BBoxBottom(line, font) == IF line = <<>> THEN 0 ELSE font.size

\* The style catalogs as config.json gave them at load time; `styles` holds
\* the module-level dicts as they are now.
LoadedStyles == [BASE_STYLE |-> BASE_STYLE, YANGO_PRO_APP_STYLE |-> YANGO_PRO_APP_STYLE]

\* CATALOG[style_key]: the local name `base` bound to the catalog's own
\* dict.  shares_base and shares_size tell whether base, and base["size"],
\* are still the very objects the catalog holds.
CatalogEntry(table, style_key) ==
    [styles |-> styles, table |-> table, key |-> style_key,
     base |-> styles[table][style_key],
     shares_base |-> TRUE, shares_size |-> TRUE]

\* A faulty copy: base stays the catalog's own dict.
share_base(r) == r

\* dict(d): a new dict with the same items; the values stay shared.
dict_copy(r) == [r EXCEPT !.shares_base = FALSE]

\* base[k] = v: the catalog sees it when base is the catalog's own dict.
set_item(r, k, v) ==
    LET nb == [x \in DOMAIN r.base \cup {k} |-> IF x = k THEN v ELSE r.base[x]]
    IN  [r EXCEPT !.base = nb,
                  !.styles = IF r.shares_base
                             THEN [r.styles EXCEPT ![r.table][r.key] = nb]
                             ELSE r.styles]

\* base["size"][b] = v: the catalog sees it when base["size"] is the
\* catalog's own size dict.
set_size_item(r, b, v) ==
    LET ns == [x \in DOMAIN r.base.size \cup {b} |-> IF x = b THEN v ELSE r.base.size[x]]
    IN  [r EXCEPT !.base = [r.base EXCEPT !.size = ns],
                  !.styles = IF r.shares_size
                             THEN [r.styles EXCEPT ![r.table][r.key].size = ns]
                             ELSE r.styles]

\* A faulty copy: base["size"] stays the catalog's own size dict.
share_size(r) == r

\* base["size"] = dict(base["size"])
copy_size(r) ==
    [set_item(r, "size", r.base.size) EXCEPT !.shares_size = r.shares_base]

\* base["size"].update(v)
RECURSIVE update_size(_, _, _)
update_size(r, v, keys) ==
    IF keys = {} THEN r
    ELSE LET b == CHOOSE x \in keys : TRUE
         IN  update_size(set_size_item(r, b, v[b]), v, keys \ {b})

\* A faulty merge: the overrides are dropped.
KeepBase(r, overrides, keys) == r

\* for k, v in overrides.items(): merge into the copy of the base style
RECURSIVE MergeOverrides(_, _, _)
MergeOverrides(r, overrides, keys) ==
    IF keys = {} THEN r
    ELSE LET k == CHOOSE x \in keys : TRUE
         IN  MergeOverrides(IF k = "size"
                            THEN update_size(r, overrides[k], DOMAIN overrides[k])
                            ELSE set_item(r, k, overrides[k]),
                            overrides, keys \ {k})

\* src/main.py: the 1200x628 sizes of the Yango_pro_app style
ProAppSizes(r, style_key, banner_key) ==
    IF banner_key = "1200x628" /\ style_key = "headline"
    THEN set_size_item(r, "1200x628", 84)
    ELSE IF banner_key = "1200x628" /\ style_key = "subline"
    THEN set_size_item(r, "1200x628", 32)
    ELSE r

StyleFont(base, banner_key, language) ==
    IF language = "Arabic"
    THEN load_arabic_font_with_fallback(base.size[banner_key])
    ELSE load_font(base.font, base.size[banner_key])

\* BASE_STYLE[style_key] of a kind the catalog lacks
KeyError == [raised |-> TRUE, st |-> EmptyDict, font |-> load_font("", 0), styles |-> styles]

\* return base, font
Resolved(r, banner_key, language) ==
    [raised |-> FALSE, st |-> r.base, font |-> StyleFont(r.base, banner_key, language),
     styles |-> r.styles]

resolve_style_main(style_key, layout_key, banner_key, language) ==
    IF /\ layout_key \in {"Yango_pro_app", "Yango_app"}
       /\ banner_key \in {"1200x1200", "1200x1500", "1200x628"}
       /\ style_key \in DOMAIN styles.YANGO_PRO_APP_STYLE
    THEN Resolved(ProAppSizes(copy_size(dict_copy(CatalogEntry("YANGO_PRO_APP_STYLE",
                                                                style_key))),
                              style_key, banner_key),
                  banner_key, language)
    ELSE IF style_key \notin DOMAIN styles.BASE_STYLE THEN KeyError
    ELSE LET layout == Get(LAYOUTS, layout_key, EmptyDict)
             overrides == Get(Get(layout, "styleOverrides", EmptyDict), style_key, EmptyDict)
         IN  Resolved(MergeOverrides(copy_size(dict_copy(CatalogEntry("BASE_STYLE",
                                                                      style_key))),
                                     overrides, DOMAIN overrides),
                      banner_key, language)

\* src/app.py has no language parameter and loads the style's own font.
resolve_style_app(style_key, layout_key, banner_key) ==
    IF style_key \notin DOMAIN styles.BASE_STYLE THEN KeyError
    ELSE LET layout == Get(LAYOUTS, layout_key, EmptyDict)
             overrides == Get(Get(layout, "styleOverrides", EmptyDict), style_key, EmptyDict)
         IN  Resolved(MergeOverrides(copy_size(dict_copy(CatalogEntry("BASE_STYLE",
                                                                      style_key))),
                                     overrides, DOMAIN overrides),
                      banner_key, "English")

\* A faulty search: the last special entry that matches.
RECURSIVE LastSpecial(_, _, _, _, _)
LastSpecial(special, prev_key, next_key, banner_key, default) ==
    IF special = <<>> THEN default
    ELSE LET s == special[Len(special)]
         IN  IF /\ prev_key = s[1]
                /\ next_key = s[2]
                /\ (s[4] = "None" \/ s[4] = banner_key)
             THEN s[3]
             ELSE LastSpecial(DropLast(special), prev_key, next_key, banner_key, default)

\* The first special entry that matches, else the default gap.
RECURSIVE FirstSpecial(_, _, _, _, _)
FirstSpecial(special, prev_key, next_key, banner_key, default) ==
    IF special = <<>> THEN default
    ELSE LET s == Head(special)
         IN  IF /\ prev_key = s[1]
                /\ next_key = s[2]
                /\ (s[4] = "None" \/ s[4] = banner_key)
             THEN s[3]
             ELSE FirstSpecial(Tail(special), prev_key, next_key, banner_key, default)

get_gap(layout, prev_key, next_key, banner_key) ==
    FirstSpecial(Get(layout.gap, "special", <<>>), prev_key, next_key, banner_key,
                 Get(layout.gap, "default", 24))

get_arabic_right_margin(banner_key) ==
    CASE banner_key \in {"1200x1200", "1200x1500"} -> 64
      [] banner_key = "1200x628" -> 40
      [] banner_key = "1080x1920" -> 120
      [] OTHER -> 64

\* any(U+0590 <= ch <= U+08FF for ch in s): presentation forms lie outside
is_rtl_text(s) == \E i \in 1..Len(s) : s[i] \in {"R", "H"}

(***************************************************************************)
(* compose.  The canvas is the sequence of what was painted over the       *)
(* background, in painting order: a later entry covers an earlier one.     *)
(* A text entry is one draw_text_with_highlights / draw.text call.         *)
(***************************************************************************)
TextOp(kind, line, font, x, y) ==
    [op |-> "text", kind |-> kind, text |-> line, x |-> x, y |-> y, size |-> font.size]

OverlayOp(ov_path) ==
    [op |-> "overlay", kind |-> "overlay", text |-> ov_path, x |-> 0, y |-> 0, size |-> 0]

\* The files under Overlay/ when the overlay images are installed.
OverlayFiles ==
    {<<"Overlay", l, b>> : l \in AVAILABLE_LAYOUTS, b \in SIZES}
        \cup {<<"Overlay", "AR", l, b>> : l \in AVAILABLE_LAYOUTS, b \in SIZES}
        \cup {<<"Overlay", b>> : b \in SIZES}

os_path_exists(path, installed) == installed /\ path \in OverlayFiles

RECURSIVE SumSeq(_)
SumSeq(s) == IF s = <<>> THEN 0 ELSE Head(s) + SumSeq(Tail(s))

ProAppLayouts == {"Yango_pro_app", "Yango_app"}

RedLayouts == {"Yango_Red", "Yango_pro_Red"}

DOWNLOAD_APP_PHRASES ==
    [English |-> <<"D", "o", "w", "n", "l", "o", "a", "d", " ", "t", "h", "e", " ",
                   "a", "p", "p">>,
     Arabic  |-> <<"R", "R", "R", "R", " ", "R", "R", "R", "R", "R", "R", "R">>]

\* The lines of one block, line n at y + (n - 1) * step and at x = xs[n].
LineOps(kind, lines, font, xs, y, step) ==
    [n \in 1..Len(lines) |-> TextOp(kind, lines[n], font, xs[n], y + (n - 1) * step)]

\* A faulty layering: the two layers in the other order.
layered_swapped(first, second) == second \o first

\* src/main.py 668-683: the overlay is composited onto the background,
\* then the text is drawn on the result.
layered_main(overlay, text) == overlay \o text

\* src/app.py 153-181: the text is drawn on the background, then the
\* overlay is composited onto the result.
layered_app(text, overlay) == text \o overlay

\* src/bot.py 197-199: background, then overlay, then the text layer.
layered_bot(overlay, text_layer) == overlay \o text_layer

\* src/main.py 668-680: the overlay lookup and composite.
overlay_main(layout_key, banner_key, apply_overlay, language, installed) ==
    IF ~apply_overlay THEN <<>>
    ELSE LET ov_path == IF language = "Arabic"
                        THEN <<"Overlay", "AR", layout_key, banner_key>>
                        ELSE <<"Overlay", layout_key, banner_key>>
         IN  IF os_path_exists(ov_path, installed) THEN <<OverlayOp(ov_path)>> ELSE <<>>

\* blocks.append((lines, st, font, key)) of src/main.py: rs is what
\* resolve_style returned for the kind.
block_main(key, raw, rs, max_w) ==
    [lines |-> wrap_with_limits_main(raw, rs.font, max_w,
                   Get(rs.st, "max_lines", 0), Get(rs.st, "ellipsis", FALSE)),
     st |-> rs.st, font |-> rs.font, key |-> key]

\* A faulty block loop: it walks text_stack from its last kind to its first.
RECURSIVE stack_blocks_reversed(_, _, _, _, _, _)
stack_blocks_reversed(text_stack, content_map, layout_key, banner_key, language, max_w) ==
    IF text_stack = <<>> THEN <<>>
    ELSE LET key == Head(text_stack)
             raw == Get(content_map, key, <<>>)
             rest == stack_blocks_reversed(Tail(text_stack), content_map, layout_key,
                                           banner_key, language, max_w)
         IN  IF strip(raw) = <<>> THEN rest
             ELSE rest \o
                    <<block_main(key, raw,
                                 resolve_style_main(key, layout_key, banner_key, language),
                                 max_w)>>

\* blocks: the kinds of text_stack that have text, wrapped in their style
RECURSIVE stack_blocks_main(_, _, _, _, _, _)
stack_blocks_main(text_stack, content_map, layout_key, banner_key, language, max_w) ==
    IF text_stack = <<>> THEN <<>>
    ELSE LET key == Head(text_stack)
             raw == Get(content_map, key, <<>>)
             rest == stack_blocks_main(Tail(text_stack), content_map, layout_key,
                                       banner_key, language, max_w)
         IN  IF strip(raw) = <<>> THEN rest
             ELSE <<block_main(key, raw,
                               resolve_style_main(key, layout_key, banner_key, language),
                               max_w)>>
                      \o rest

\* What was measured of each block: its kind, its number of lines, its font
\* size and its line_height factor.
block_summary(blocks) ==
    [i \in 1..Len(blocks) |->
        [key |-> blocks[i].key, lines |-> Len(blocks[i].lines),
         size |-> blocks[i].font.size, line_height |-> blocks[i].st.line_height]]

\* gaps: one per adjacent pair of blocks
stack_gaps(blocks, layout, banner_key) ==
    [i \in 1..(Len(blocks) - 1) |->
        get_gap(layout, blocks[i].key, blocks[i + 1].key, banner_key)]

\* total_h: the line heights of every block plus the gaps
measure_total_h(blocks, gaps) ==
    SumSeq([i \in 1..Len(blocks) |->
              line_height_px(blocks[i].font, blocks[i].st.line_height)
                  * Len(blocks[i].lines)])
        + SumSeq(gaps)

\* A faulty origin: the bottom anchors forget the height of the stack.
anchor_origin_no_height(anchor, w, h, pad, max_w, total_h, banner_key, layout_key) ==
    CASE anchor = "center"    -> [x |-> pad.left, y |-> (h - total_h) \div 2]
      [] anchor = "top_left"  -> [x |-> pad.left, y |-> pad.top]
      [] anchor = "top_right" -> [x |-> w - pad.right - max_w, y |-> pad.top]
      [] OTHER                -> [x |-> pad.left, y |-> h - pad.bottom]

\* src/main.py 850-888: the origin of the stack
anchor_origin_main(anchor, w, h, pad, max_w, total_h, banner_key, layout_key) ==
    CASE anchor = "bottom_left" ->
            [x |-> pad.left, y |-> h - pad.bottom - total_h]
      [] anchor = "bottom_center" ->
            [x |-> (w - max_w) \div 2,
             y |-> CASE banner_key = "1080x1920" -> h - 250 - total_h
                     [] banner_key = "1200x1500" /\ layout_key \in ProAppLayouts ->
                            h - pad.bottom - total_h - 200
                     [] banner_key = "1200x1200" /\ layout_key \in ProAppLayouts ->
                            h - pad.bottom - total_h - 170
                     [] banner_key = "1200x1200" /\ layout_key \in RedLayouts ->
                            h - pad.bottom - total_h - 40
                     [] banner_key = "1200x1500" /\ layout_key \in RedLayouts ->
                            h - pad.bottom - total_h - 240
                     [] OTHER -> h - pad.bottom - total_h]
      [] anchor = "center" ->
            [x |-> pad.left, y |-> (h - total_h) \div 2]
      [] anchor = "top_left" ->
            [x |-> pad.left, y |-> pad.top]
      [] anchor = "top_right" ->
            [x |-> w - pad.right - max_w, y |-> pad.top]
      [] anchor = "bottom_right" ->
            [x |-> w - pad.right - max_w, y |-> h - pad.bottom - total_h]
      [] OTHER ->
            [x |-> pad.left, y |-> h - pad.bottom - total_h]

\* The x of one line of a stacked block, in each drawing branch of main.py.
line_x_main(c, b, line) ==
    LET lw == text_width(line, b.font)
        right_margin == get_arabic_right_margin(c.banner_key)
    IN  CASE c.branch = "pro_app" ->
                IF c.language = "Arabic" THEN c.w - right_margin - lw
                ELSE Get(Get(b.st, "left_margin", EmptyDict), c.banner_key, 150)
          [] c.branch = "red" ->
                IF c.language = "Arabic" THEN c.w - right_margin - lw
                ELSE (c.w - lw) \div 2
          [] OTHER ->
                LET by_style == Get(b.st, "align", "left")
                    by_language == IF c.language = "Arabic" THEN "right" ELSE by_style
                    align == IF /\ is_rtl_text(join(b.lines))
                                /\ c.anchor \in {"top_right", "bottom_right"}
                             THEN "right" ELSE by_language
                IN  CASE align = "center" -> c.x + (c.max_w - lw) \div 2
                      [] align = "right" ->
                            IF c.language = "Arabic" THEN c.w - right_margin - lw
                            ELSE c.x + c.max_w - lw
                      [] OTHER -> c.x

\* for i, (lines, st, font, key) in enumerate(blocks): draw the lines, then
\* y += gaps[i] when i < len(gaps).  i here is i + 1 of the code.
RECURSIVE draw_stack_main(_, _, _, _)
draw_stack_main(blocks, i, y, c) ==
    IF i > Len(blocks) THEN <<>>
    ELSE LET b == blocks[i]
             lh == line_height_px(b.font, b.st.line_height)
             xs == [n \in 1..Len(b.lines) |-> line_x_main(c, b, b.lines[n])]
             after == y + Len(b.lines) * lh + (IF i <= Len(c.gaps) THEN c.gaps[i] ELSE 0)
         IN  LineOps(b.key, b.lines, b.font, xs, y, lh)
                 \o draw_stack_main(blocks, i + 1, after, c)

NotDisclaimer(b) == b.key # "disclaimer"

IsDisclaimer(b) == b.key = "disclaimer"

\* src/main.py 686-822: the 1200x628 path.  Each of headline and subline,
\* when not the empty string, is wrapped, drawn from the running y and
\* followed by 28 px; the disclaimer and the download phrase have their
\* own positions.
fixed_block_drawn(kind, text, rs, layout_key, banner_key, language, w, y, block_x, block_width, spacing_pct) ==
    LET lines == wrap_with_limits_main(text, rs.font, block_width,
                     Get(rs.st, "max_lines", 0), Get(rs.st, "ellipsis", FALSE))
        line_spacing == (rs.font.size * spacing_pct) \div 100
        lh == rs.font.size
        xs == [n \in 1..Len(lines) |->
                 LET lw == text_width(lines[n], rs.font)
                 IN  IF language = "Arabic"
                     THEN w - get_arabic_right_margin(banner_key) - lw
                     ELSE IF layout_key \in ProAppLayouts THEN 48
                     ELSE block_x + (block_width - lw) \div 2]
    IN  [ops |-> LineOps(kind, lines, rs.font, xs, y, lh + line_spacing),
         y |-> y + (IF lines = <<>> THEN 0
                    ELSE Len(lines) * lh + (Len(lines) - 1) * line_spacing) + 28]

fixed_block_main(kind, text, layout_key, banner_key, language, w, y, block_x, block_width, spacing_pct) ==
    fixed_block_drawn(kind, text, resolve_style_main(kind, layout_key, banner_key, language),
                      layout_key, banner_key, language, w, y, block_x, block_width,
                      spacing_pct)

\* rs is what resolve_style returned for "disclaimer".
fixed_disclaimer_drawn(disclaimer, rs, layout_key, banner_key, language, w, h) ==
    LET max_lines == Get(rs.st, "max_lines", 0)
        ellipsis == Get(rs.st, "ellipsis", FALSE)
        step == line_height_px(rs.font, rs.st.line_height)
    IN  IF layout_key \in ProAppLayouts
        THEN LET lines == wrap_with_limits_main(disclaimer, rs.font, 750, max_lines, ellipsis)
                 xs == [n \in 1..Len(lines) |->
                          IF language = "Arabic"
                          THEN w - get_arabic_right_margin(banner_key)
                                 - text_width(lines[n], rs.font) - 140
                          ELSE 200 - 32]
             IN  LineOps("disclaimer", lines, rs.font, xs, 540 + 5, step)
        ELSE LET lines == wrap_with_limits_main(disclaimer, rs.font, 540, max_lines, ellipsis)
                 total_height ==
                     SumSeq([n \in 1..Len(lines) |-> BBoxBottom(lines[n], rs.font)])
                         + (Len(lines) - 1) * 10
                 bottom_margin == IF banner_key = "1080x1920" THEN 50 ELSE 40
                 xs == [n \in 1..Len(lines) |-> w - 40 - text_width(lines[n], rs.font)]
             IN  LineOps("disclaimer", lines, rs.font, xs,
                         h - bottom_margin - total_height, step)

fixed_disclaimer_main(disclaimer, layout_key, banner_key, language, w, h) ==
    fixed_disclaimer_drawn(disclaimer,
                           resolve_style_main("disclaimer", layout_key, banner_key, language),
                           layout_key, banner_key, language, w, h)

download_font_main(size, language) ==
    IF language = "Arabic" THEN load_arabic_font_with_fallback(size)
    ELSE load_font("Fonts/YangoGroupHeadline-HeavyArabic.ttf", size)

fixed_download_main(layout_key, banner_key, language, w, h) ==
    IF layout_key \notin ProAppLayouts THEN <<>>
    ELSE LET download_phrase ==
                 Get(DOWNLOAD_APP_PHRASES, language, DOWNLOAD_APP_PHRASES["English"])
             download_font == download_font_main(40, language)
             download_x == 200 - 32
             download_y == h - 40 - BBoxBottom(download_phrase, download_font) - 70 + 18
             lines == wrap_with_limits_main(download_phrase, download_font,
                                            w - download_x - 40, 2, FALSE)
             xs == [n \in 1..Len(lines) |->
                      IF language = "Arabic"
                      THEN w - get_arabic_right_margin(banner_key)
                             - text_width(lines[n], download_font) - 140
                      ELSE download_x]
         IN  LineOps("download", lines, download_font, xs, download_y,
                     download_font.size + 5)

fixed_top_main(headline, subline, disclaimer, banner_key, layout_key, language, w, h) ==
    LET hd == IF headline # <<>>
              THEN fixed_block_main("headline", headline, layout_key, banner_key,
                                    language, w, 40, 40, 540, 15)
              ELSE [ops |-> <<>>, y |-> 40]
        sb == IF subline # <<>>
              THEN fixed_block_main("subline", subline, layout_key, banner_key,
                                    language, w, hd.y, 80, 460, 20)
              ELSE [ops |-> <<>>, y |-> hd.y]
        dc == IF disclaimer # <<>>
              THEN fixed_disclaimer_main(disclaimer, layout_key, banner_key, language, w, h)
              ELSE <<>>
    IN  hd.ops \o sb.ops \o dc \o fixed_download_main(layout_key, banner_key, language, w, h)

\* src/main.py 1027-1094: the download phrase of the anchor path
anchor_download_main(layout_key, banner_key, language, w, h, pad) ==
    IF layout_key \notin ProAppLayouts THEN <<>>
    ELSE LET download_phrase ==
                 Get(DOWNLOAD_APP_PHRASES, language, DOWNLOAD_APP_PHRASES["English"])
             download_font ==
                 download_font_main(IF banner_key = "1200x628" THEN 48 ELSE 64, language)
             bottom == BBoxBottom(download_phrase, download_font)
             download_x ==
                 CASE banner_key = "1080x1920" -> pad.left + 380
                   [] banner_key \in {"1200x1500", "1200x1200"} -> pad.left + 120 - 20
                   [] OTHER -> pad.left
             download_y ==
                 CASE banner_key = "1080x1920" -> h - pad.bottom - bottom - 240
                   [] banner_key \in {"1200x1500", "1200x1200"} ->
                          h - pad.bottom - bottom - 110 + 20
                   [] OTHER -> h - pad.bottom - bottom
             max_width ==
                 CASE language = "Arabic" /\ banner_key = "1080x1920" -> 260
                   [] banner_key \in {"1200x1200", "1200x1500"} -> w - download_x - pad.right
                   [] OTHER -> 315
             lines == wrap_with_limits_main(download_phrase, download_font, max_width,
                                            2, FALSE)
             xs == [n \in 1..Len(lines) |->
                      IF language = "Arabic"
                      THEN LET edge == w - get_arabic_right_margin(banner_key)
                                         - text_width(lines[n], download_font)
                           IN  CASE banner_key \in {"1200x1200", "1200x1500", "1080x1920"} ->
                                        edge - 180
                                 [] banner_key = "1200x628" -> edge - 140
                                 [] OTHER -> edge
                      ELSE download_x]
         IN  LineOps("download", lines, download_font, xs, download_y,
                     download_font.size + 5)

\* src/main.py 1096-1156: the disclaimer of the Yango_pro_app / Yango_app
\* and Yango_Red / Yango_pro_Red layouts, drawn at its own position
anchor_disclaimer_drawn(disclaimer, rs, layout_key, banner_key, language, w, h) ==
        LET  square == banner_key = "1200x1200"
             width == IF layout_key \in RedLayouts THEN 700
                      ELSE IF square THEN w - 270 - 200 ELSE w - 274 - 274
             lines == wrap_with_limits_main(disclaimer, rs.font, width,
                          Get(rs.st, "max_lines", 0), Get(rs.st, "ellipsis", FALSE))
             y == IF layout_key \in RedLayouts
                  THEN (IF square THEN h - 40 ELSE h - 80)
                  ELSE (IF square THEN 1060 + 20 ELSE 1350 + 20)
             xs == [n \in 1..Len(lines) |->
                      LET lw == text_width(lines[n], rs.font)
                      IN  IF layout_key \in RedLayouts
                          THEN (IF square THEN w - 40 - lw ELSE w - 80 - lw)
                          ELSE IF language = "Arabic"
                               THEN w - get_arabic_right_margin(banner_key) - lw - 180
                               ELSE (IF square THEN 250 ELSE 274 - 20)]
         IN  LineOps("disclaimer", lines, rs.font, xs, y,
                     line_height_px(rs.font, rs.st.line_height))

anchor_disclaimer_main(disclaimer, layout_key, banner_key, language, w, h) ==
    IF disclaimer = <<>> \/ layout_key \notin (ProAppLayouts \cup RedLayouts)
          \/ banner_key \notin {"1200x1200", "1200x1500"}
    THEN <<>>
    ELSE anchor_disclaimer_drawn(disclaimer,
             resolve_style_main("disclaimer", layout_key, banner_key, language),
             layout_key, banner_key, language, w, h)

\* src/main.py 934-944: at 1080x1920 the stacked disclaimer is drawn 50 px
\* above the bottom edge, centred
tall_disclaimer_main(blocks, w, h) ==
    LET disclaimer_blocks == SelectSeq(blocks, IsDisclaimer)
    IN  IF disclaimer_blocks = <<>> THEN <<>>
        ELSE LET b == disclaimer_blocks[1]
                 xs == [n \in 1..Len(b.lines) |->
                          (w - text_width(b.lines[n], b.font)) \div 2]
             IN  LineOps("disclaimer", b.lines, b.font, xs, h - 50,
                         line_height_px(b.font, b.st.line_height))

\* src/main.py 846-1156: the blocks measured, placed and drawn
\* The value of y after the loop over the stacked blocks.
RECURSIVE stack_cursor(_, _, _, _)
stack_cursor(blocks, i, y, c) ==
    IF i > Len(blocks) THEN y
    ELSE LET b == blocks[i]
             lh == line_height_px(b.font, b.st.line_height)
         IN  stack_cursor(blocks, i + 1,
                 y + Len(b.lines) * lh + (IF i <= Len(c.gaps) THEN c.gaps[i] ELSE 0), c)

\* The loop over the stacked blocks: what it draws, the y it starts at and
\* the y it ends at.
stack_drawn_main(blocks, y, c) ==
    [ops |-> draw_stack_main(blocks, 1, y, c), drawn |-> block_summary(blocks),
     start |-> y, cursor |-> stack_cursor(blocks, 1, y, c)]

\* What the anchor path did: the stack, the operations after it and the
\* measurement before it.
anchor_record(stack, after, measured, gaps, total_h, origin, pad, anchor) ==
    [ops |-> stack.ops \o after, measured |-> measured, drawn |-> stack.drawn,
     start |-> stack.start, cursor |-> stack.cursor,
     gaps |-> gaps, total_h |-> total_h,
     x |-> origin.x, y |-> origin.y, pad |-> pad, anchor |-> anchor]

anchor_stack_main(blocks, layout, disclaimer, banner_key, layout_key, language, w, h) ==
    LET pad == layout.padding
        max_w == w - pad.left - pad.right
        gaps == stack_gaps(blocks, layout, banner_key)
        total_h == measure_total_h(blocks, gaps)
        anchor == layout.anchor
        origin == anchor_origin_main(anchor, w, h, pad, max_w, total_h, banner_key,
                                     layout_key)
        tall == banner_key = "1080x1920"
        branch == CASE tall -> "aligned"
                    [] /\ layout_key \in ProAppLayouts
                       /\ banner_key \in {"1200x1200", "1200x1500", "1200x628"} -> "pro_app"
                    [] /\ layout_key \in RedLayouts
                       /\ banner_key \in {"1200x1200", "1200x1500"} -> "red"
                    [] OTHER -> "aligned"
        c == [branch |-> branch, x |-> origin.x, w |-> w, max_w |-> max_w,
              anchor |-> anchor, language |-> language, banner_key |-> banner_key,
              gaps |-> gaps]
        y == IF ~tall THEN origin.y
             ELSE IF layout_key \in ProAppLayouts THEN origin.y - 30
             ELSE IF layout_key \in RedLayouts THEN origin.y + 200
             ELSE origin.y + 50
        drawn == IF \/ tall
                    \/ branch = "red"
                    \/ branch = "pro_app" /\ banner_key \in {"1200x1200", "1200x1500"}
                 THEN SelectSeq(blocks, NotDisclaimer)
                 ELSE blocks
    IN  anchor_record(stack_drawn_main(drawn, y, c),
                      (IF tall THEN tall_disclaimer_main(blocks, w, h) ELSE <<>>)
                          \o anchor_download_main(layout_key, banner_key, language, w, h, pad)
                          \o anchor_disclaimer_main(disclaimer, layout_key, banner_key,
                                                    language, w, h),
                      block_summary(blocks), gaps, total_h, origin, pad, anchor)

\* src/main.py 823-1156: the anchor path
anchor_path_main(headline, subline, disclaimer, banner_key, layout_key, language, w, h) ==
    LET layout == Get(LAYOUTS, layout_key, LAYOUTS["Yango_photo"])
        pad == layout.padding
        max_w == w - pad.left - pad.right
        content_map == [headline |-> headline, subline |-> subline,
                        disclaimer |-> disclaimer]
    IN  anchor_stack_main(stack_blocks_main(layout.text_stack, content_map, layout_key,
                                            banner_key, language, max_w),
                          layout, disclaimer, banner_key, layout_key, language, w, h)

\* The image of the anchor path: a is what the anchor path drew and measured.
anchor_output_main(overlay, a) ==
    [path |-> "anchor", canvas |-> layered_main(overlay, a.ops),
     measured |-> a.measured, drawn |-> a.drawn, start |-> a.start, cursor |-> a.cursor,
     gaps |-> a.gaps, total_h |-> a.total_h,
     x |-> a.x, y |-> a.y, pad |-> a.pad, anchor |-> a.anchor]

\* src/main.py 665-1158.  installed: whether the overlay images are on disk.
compose_main(headline, subline, disclaimer, banner_key, layout_key, apply_overlay, language, installed) ==
    LET w == CanvasWidth(banner_key)
        h == CanvasHeight(banner_key)
        overlay == overlay_main(layout_key, banner_key, apply_overlay, language, installed)
    IN  IF banner_key = "1200x628"
        THEN [path |-> "fixed_top",
              canvas |-> layered_main(overlay,
                             fixed_top_main(headline, subline, disclaimer, banner_key,
                                            layout_key, language, w, h)),
              measured |-> <<>>, gaps |-> <<>>, total_h |-> 0, x |-> 40, y |-> 40,
              pad |-> EmptyDict, anchor |-> "None"]
        ELSE anchor_output_main(overlay,
                 anchor_path_main(headline, subline, disclaimer, banner_key,
                                  layout_key, language, w, h))

(***************************************************************************)
(* src/app.py: compose.                                                    *)
(***************************************************************************)
RECURSIVE stack_blocks_app(_, _, _, _, _)
stack_blocks_app(text_stack, content_map, layout_key, banner_key, max_w) ==
    IF text_stack = <<>> THEN <<>>
    ELSE LET key == Head(text_stack)
             raw == Get(content_map, key, <<>>)
             rest == stack_blocks_app(Tail(text_stack), content_map, layout_key,
                                      banner_key, max_w)
         IN  IF strip(raw) = <<>> THEN rest
             ELSE LET rs == resolve_style_app(key, layout_key, banner_key)
                      lines == wrap_with_limits_app(raw, rs.font, max_w,
                                   Get(rs.st, "max_lines", 0), Get(rs.st, "ellipsis", FALSE))
                  IN  <<[lines |-> lines, st |-> rs.st, font |-> rs.font, key |-> key]>>
                          \o rest

\* A faulty origin: the anchor is not read, the stack starts top left.
anchor_origin_top_left(anchor, w, h, pad, max_w, total_h) == [x |-> pad.left, y |-> pad.top]

\* src/app.py 138-151: the origin of the stack
anchor_origin_app(anchor, w, h, pad, max_w, total_h) ==
    CASE anchor = "bottom_left"  -> [x |-> pad.left, y |-> h - pad.bottom - total_h]
      [] anchor = "center"       -> [x |-> pad.left, y |-> (h - total_h) \div 2]
      [] anchor = "top_left"     -> [x |-> pad.left, y |-> pad.top]
      [] anchor = "top_right"    -> [x |-> w - pad.right - max_w, y |-> pad.top]
      [] anchor = "bottom_right" ->
            [x |-> w - pad.right - max_w, y |-> h - pad.bottom - total_h]
      [] OTHER                   -> [x |-> pad.left, y |-> h - pad.bottom - total_h]

\* A faulty placement: every line at the left edge of the content box.
line_x_left(c, b, line) == c.x

line_x_app(c, b, line) ==
    LET lw == text_width(line, b.font)
        align == IF /\ is_rtl_text(join(b.lines))
                    /\ c.anchor \in {"top_right", "bottom_right"}
                 THEN "right" ELSE Get(b.st, "align", "left")
    IN  CASE align = "center" -> c.x + (c.max_w - lw) \div 2
          [] align = "right"  -> c.x + c.max_w - lw
          [] OTHER            -> c.x

RECURSIVE draw_stack_app(_, _, _, _)
draw_stack_app(blocks, i, y, c) ==
    IF i > Len(blocks) THEN <<>>
    ELSE LET b == blocks[i]
             lh == line_height_px(b.font, b.st.line_height)
             xs == [n \in 1..Len(b.lines) |-> line_x_app(c, b, b.lines[n])]
             after == y + Len(b.lines) * lh + (IF i <= Len(c.gaps) THEN c.gaps[i] ELSE 0)
         IN  LineOps(b.key, b.lines, b.font, xs, y, lh)
                 \o draw_stack_app(blocks, i + 1, after, c)

\* src/app.py 176-181: the overlay lookup and composite
overlay_app(banner_key, apply_overlay, installed) ==
    IF apply_overlay /\ os_path_exists(<<"Overlay", banner_key>>, installed)
    THEN <<OverlayOp(<<"Overlay", banner_key>>)>>
    ELSE <<>>

compose_app(headline, subline, disclaimer, banner_key, layout_key, apply_overlay, installed) ==
    LET w == CanvasWidth(banner_key)
        h == CanvasHeight(banner_key)
        layout == Get(LAYOUTS, layout_key, LAYOUTS["L1_basic"])
        pad == layout.padding
        max_w == w - pad.left - pad.right
        content_map == [headline |-> headline, subline |-> subline,
                        disclaimer |-> disclaimer]
        blocks == stack_blocks_app(layout.text_stack, content_map, layout_key,
                                   banner_key, max_w)
        gaps == stack_gaps(blocks, layout, banner_key)
        total_h == measure_total_h(blocks, gaps)
        anchor == layout.anchor
        origin == anchor_origin_app(anchor, w, h, pad, max_w, total_h)
        c == [x |-> origin.x, max_w |-> max_w, anchor |-> anchor, gaps |-> gaps]
    IN  [path |-> "anchor",
         canvas |-> layered_app(draw_stack_app(blocks, 1, origin.y, c),
                                overlay_app(banner_key, apply_overlay, installed)),
         measured |-> block_summary(blocks),
         gaps |-> gaps, total_h |-> total_h,
         x |-> origin.x, y |-> origin.y, pad |-> pad, anchor |-> anchor]

(***************************************************************************)
(* src/bot.py: process_image.  The text goes to a transparent layer of     *)
(* its own; the result is the background, then the overlay, then the text  *)
(* layer.                                                                  *)
(***************************************************************************)
\* output_size, by the aspect ratio of the photo
OutputSize(aspect) ==
    CASE aspect = "square" -> "1200x1200"
      [] aspect = "wide"   -> "1200x628"
      [] aspect = "tall"   -> "1200x1500"

BotFont(block_type, output_size) ==
    LET small == output_size = "1200x628"
    IN  CASE block_type = "headline" ->
                load_font("Fonts/YangoGroupHeadline-HeavyArabic.ttf",
                          IF small THEN 92 ELSE 124)
          [] block_type = "subheadline" ->
                load_font("Fonts/YangoGroupText-Medium.ttf", IF small THEN 32 ELSE 48)
          [] OTHER ->
                load_font("Fonts/YangoGroupText-Medium.ttf", IF small THEN 12 ELSE 14)

get_line_spacing(font, block_type) ==
    CASE block_type = "headline"    -> (font.size * 15) \div 100
      [] block_type = "subheadline" -> (font.size * 20) \div 100
      [] OTHER                      -> 10

\* blocks: (lines, font, block_type) of every text that is not ''
bot_blocks(headline, subtitle, disclaimer, output_size, max_text_width) ==
    LET block(text, block_type) ==
            IF text = <<>> THEN <<>>
            ELSE <<[lines |-> wrap_text(text, BotFont(block_type, output_size),
                                        max_text_width),
                    font |-> BotFont(block_type, output_size),
                    block_type |-> block_type]>>
    IN  block(headline, "headline") \o block(subtitle, "subheadline")
            \o block(disclaimer, "disclaimer")

bot_block_height(b) ==
    SumSeq([n \in 1..Len(b.lines) |-> BBoxBottom(b.lines[n], b.font)])
        + (Len(b.lines) - 1) * get_line_spacing(b.font, b.block_type)

\* src/bot.py 112-122: the bottom-anchored stack of 1200x1200 and 1200x1500
RECURSIVE bot_draw_bottom(_, _, _, _)
bot_draw_bottom(blocks, i, y, out_w) ==
    IF i > Len(blocks) THEN <<>>
    ELSE LET b == blocks[i]
             line_spacing == get_line_spacing(b.font, b.block_type)
             xs == [n \in 1..Len(b.lines) |->
                      (out_w - text_width(b.lines[n], b.font)) \div 2]
             after == y + (IF b.lines = <<>> THEN 0
                           ELSE Len(b.lines) * b.font.size
                                  + (Len(b.lines) - 1) * line_spacing) + 24
         IN  LineOps(b.block_type, b.lines, b.font, xs, y, b.font.size + line_spacing)
                 \o bot_draw_bottom(blocks, i + 1, after, out_w)

\* src/bot.py 124-158: the top-anchored stack of 1200x628
RECURSIVE bot_draw_top(_, _, _, _)
bot_draw_top(blocks, i, y, out_w) ==
    IF i > Len(blocks) THEN <<>>
    ELSE LET b == blocks[i]
             is_disclaimer == b.block_type = "disclaimer"
             line_spacing == IF is_disclaimer THEN 10
                             ELSE get_line_spacing(b.font, b.block_type)
             xs == [n \in 1..Len(b.lines) |->
                      LET lw == text_width(b.lines[n], b.font)
                      IN  IF is_disclaimer THEN out_w - lw - 50
                          ELSE 40 + (564 - lw) \div 2]
             after == y + (IF b.lines = <<>> THEN 0
                           ELSE Len(b.lines) * b.font.size
                                  + (Len(b.lines) - 1) * line_spacing) + 28
         IN  LineOps(b.block_type, b.lines, b.font, xs, y, b.font.size + line_spacing)
                 \o bot_draw_top(blocks, i + 1, after, out_w)

\* src/bot.py 25-203.  Image.open(overlay_path) raises when the file is
\* missing: no image is produced.
process_image(aspect, headline, subtitle, disclaimer, installed) ==
    LET output_size == OutputSize(aspect)
        out_w == CanvasWidth(output_size)
        out_h == CanvasHeight(output_size)
        overlay_path == <<"Overlay", output_size>>
        max_text_width == IF output_size = "1200x628" THEN 564
                          ELSE ((IF out_w < out_h THEN out_w ELSE out_h) * 8) \div 10
        blocks == bot_blocks(headline, subtitle, disclaimer, output_size, max_text_width)
        total_blocks_height ==
            SumSeq([i \in 1..Len(blocks) |-> bot_block_height(blocks[i])])
                + (Len(blocks) - 1) * 24
        y == IF output_size = "1200x628" THEN 40 ELSE out_h - 50 - total_blocks_height
        text_layer == IF output_size = "1200x628"
                      THEN bot_draw_top(blocks, 1, y, out_w)
                      ELSE bot_draw_bottom(blocks, 1, y, out_w)
    IN  IF ~os_path_exists(overlay_path, installed)
        THEN [path |-> "raised", canvas |-> <<>>, measured |-> <<>>, gaps |-> <<>>,
              total_h |-> 0, x |-> 0, y |-> 0, pad |-> EmptyDict, anchor |-> "None"]
        ELSE [path |-> "bot",
              canvas |-> layered_bot(<<OverlayOp(overlay_path)>>, text_layer),
              measured |-> [i \in 1..Len(blocks) |->
                              [key |-> blocks[i].block_type,
                               lines |-> Len(blocks[i].lines),
                               size |-> blocks[i].font.size, line_height |-> 10]],
              gaps |-> <<>>, total_h |-> total_blocks_height,
              x |-> 0, y |-> y, pad |-> EmptyDict, anchor |-> "None"]

(***************************************************************************)
(* Calls of compose and process_image.                                     *)
(***************************************************************************)
Headlines == {<<>>, <<"W", "W", "W", "W", " ", "W", "W", "W", "W", " ",
                      "W", "W", "W", "W">>, <<" ">>}

Sublines == {<<>>, <<"a", "a">>, <<"H", "H">>}

Disclaimers == {<<>>, <<"a">>}

\* One layout of each family of main.py, the default of app.py, and a
\* name that is no key of LAYOUTS.
MainLayoutKeys == {"Yango_photo", "Yango_pro_app", "Yango_Red", "Custom"}

AppLayoutKeys == {"L1_basic", "Custom"}

Languages == {"English", "Arabic"}

\* The kinds whose style one call of compose resolves.
resolved_kinds_main(headline, subline, disclaimer, banner_key, layout_key) ==
    LET content_map == [headline |-> headline, subline |-> subline,
                        disclaimer |-> disclaimer]
    IN  IF banner_key = "1200x628"
        THEN {k \in BlockKinds : content_map[k] # <<>>}
        ELSE LET layout == Get(LAYOUTS, layout_key, LAYOUTS["Yango_photo"])
             IN  {k \in BlockKinds :
                    /\ \E i \in DOMAIN layout.text_stack : layout.text_stack[i] = k
                    /\ strip(content_map[k]) # <<>>}
                 \cup (IF layout_key \in ProAppLayouts \cup RedLayouts /\ disclaimer # <<>>
                       THEN {"disclaimer"} ELSE {})

resolved_kinds_app(headline, subline, disclaimer, layout_key) ==
    LET content_map == [headline |-> headline, subline |-> subline,
                        disclaimer |-> disclaimer]
        layout == Get(LAYOUTS, layout_key, LAYOUTS["L1_basic"])
    IN  {k \in BlockKinds :
            /\ \E i \in DOMAIN layout.text_stack : layout.text_stack[i] = k
            /\ strip(content_map[k]) # <<>>}

\* The catalogs after compose resolved the styles of `kinds`: a call of
\* resolve_style reaches the catalog entry of its own kind only.
styles_after_main(kinds, layout_key, banner_key, language) ==
    [t \in DOMAIN styles |->
        [k \in DOMAIN styles[t] |->
            IF k \in kinds
            THEN resolve_style_main(k, layout_key, banner_key, language).styles[t][k]
            ELSE styles[t][k]]]

styles_after_app(kinds, layout_key, banner_key) ==
    [t \in DOMAIN styles |->
        [k \in DOMAIN styles[t] |->
            IF k \in kinds
            THEN resolve_style_app(k, layout_key, banner_key).styles[t][k]
            ELSE styles[t][k]]]

NoOutput == [path |-> "none", canvas |-> <<>>, measured |-> <<>>, gaps |-> <<>>,
             total_h |-> 0, x |-> 0, y |-> 0, pad |-> EmptyDict, anchor |-> "None"]

NoComposeCall ==
    [impl |-> "none", headline |-> <<>>, subline |-> <<>>, disclaimer |-> <<>>,
     banner_key |-> "", layout_key |-> "", apply_overlay |-> FALSE,
     language |-> "", installed |-> FALSE, out |-> NoOutput]

ComposeMain ==
    /\ ccall.impl = "none"
    /\ fcall.fn = "none"
    /\ \E hd \in Headlines, sb \in Sublines, dc \in Disclaimers, b \in SIZES,
          l \in MainLayoutKeys, ov \in BOOLEAN, lang \in Languages, inst \in BOOLEAN :
        /\ ccall' = [impl |-> "main", headline |-> hd, subline |-> sb, disclaimer |-> dc,
                  banner_key |-> b, layout_key |-> l, apply_overlay |-> ov,
                  language |-> lang, installed |-> inst,
                  out |-> compose_main(hd, sb, dc, b, l, ov, lang, inst)]
        /\ styles' = styles_after_main(resolved_kinds_main(hd, sb, dc, b, l), l, b, lang)
    /\ UNCHANGED <<wcall, hcall, rcall, fcall, LAYOUTS, conv, bot>>

ComposeApp ==
    /\ ccall.impl = "none"
    /\ fcall.fn = "none"
    /\ \E hd \in Headlines, sb \in Sublines, dc \in Disclaimers, b \in SIZES,
          l \in AppLayoutKeys, ov \in BOOLEAN, inst \in BOOLEAN :
        /\ ccall' = [impl |-> "app", headline |-> hd, subline |-> sb, disclaimer |-> dc,
                  banner_key |-> b, layout_key |-> l, apply_overlay |-> ov,
                  language |-> "English", installed |-> inst,
                  out |-> compose_app(hd, sb, dc, b, l, ov, inst)]
        /\ styles' = styles_after_app(resolved_kinds_app(hd, sb, dc, l), l, b)
    /\ UNCHANGED <<wcall, hcall, rcall, fcall, LAYOUTS, conv, bot>>

ProcessImage ==
    /\ ccall.impl = "none"
    /\ fcall.fn = "none"
    /\ \E hd \in Headlines, sb \in Sublines, dc \in Disclaimers,
          aspect \in {"square", "wide", "tall"}, inst \in BOOLEAN :
        ccall' = [impl |-> "bot", headline |-> hd, subline |-> sb, disclaimer |-> dc,
                  banner_key |-> OutputSize(aspect), layout_key |-> "None",
                  apply_overlay |-> TRUE, language |-> "English", installed |-> inst,
                  out |-> process_image(aspect, hd, sb, dc, inst)]
    /\ UNCHANGED <<wcall, hcall, rcall, fcall, LAYOUTS, styles, conv, bot>>

\* The caller takes the image; the catalogs stay as loaded.
ComposeReturn ==
    /\ ccall.impl # "none"
    /\ ccall' = NoComposeCall
    /\ UNCHANGED <<wcall, hcall, rcall, fcall, LAYOUTS, styles, conv, bot>>

(***************************************************************************)
(* Calls of resolve_style and get_gap.                                     *)
(***************************************************************************)
\* The block kinds of the catalogs and one no catalog has.
StyleKeys == BlockKinds \cup {"cta"}

\* Layouts as get_gap reads them: the gap table only.
GapLayouts ==
    {[gap |-> [default |-> 24]],
     [gap |-> [default |-> 30,
               special |-> << <<"headline", "subline", 12, "1200x1200">>,
                              <<"headline", "subline", 16, "None">>,
                              <<"subline", "disclaimer", 8, "None">> >>]],
     [gap |-> [special |-> << <<"headline", "subline", 16, "None">>,
                              <<"headline", "subline", 12, "1200x1200">> >>]],
     [gap |-> EmptyDict]}

NoFnCall ==
    [fn |-> "none", style_key |-> "", layout_key |-> "", banner_key |-> "",
     language |-> "", layout |-> EmptyDict, prev_key |-> "", next_key |-> "",
     raised |-> FALSE, st |-> EmptyDict, font |-> load_font("", 0), gap |-> 0]

ResolveStyleMain ==
    /\ fcall.fn = "none"
    /\ ccall.impl = "none"
    /\ \E k \in StyleKeys, l \in MainLayoutKeys, b \in SIZES, lang \in Languages :
        LET rs == resolve_style_main(k, l, b, lang)
        IN  /\ fcall' = [NoFnCall EXCEPT !.fn = "resolve_style_main", !.style_key = k,
                            !.layout_key = l, !.banner_key = b, !.language = lang,
                            !.raised = rs.raised, !.st = rs.st, !.font = rs.font]
            /\ styles' = rs.styles
    /\ UNCHANGED <<wcall, hcall, ccall, rcall, LAYOUTS, conv, bot>>

ResolveStyleApp ==
    /\ fcall.fn = "none"
    /\ ccall.impl = "none"
    /\ \E k \in StyleKeys, l \in AppLayoutKeys, b \in SIZES :
        LET rs == resolve_style_app(k, l, b)
        IN  /\ fcall' = [NoFnCall EXCEPT !.fn = "resolve_style_app", !.style_key = k,
                            !.layout_key = l, !.banner_key = b, !.language = "English",
                            !.raised = rs.raised, !.st = rs.st, !.font = rs.font]
            /\ styles' = rs.styles
    /\ UNCHANGED <<wcall, hcall, ccall, rcall, LAYOUTS, conv, bot>>

GetGap ==
    /\ fcall.fn = "none"
    /\ ccall.impl = "none"
    /\ \E layout \in GapLayouts, prev_key \in BlockKinds, next_key \in BlockKinds,
          b \in SIZES :
        fcall' = [NoFnCall EXCEPT !.fn = "get_gap", !.layout = layout,
                     !.prev_key = prev_key, !.next_key = next_key, !.banner_key = b,
                     !.gap = get_gap(layout, prev_key, next_key, b)]
    /\ UNCHANGED <<wcall, hcall, ccall, rcall, LAYOUTS, styles, conv, bot>>

\* The caller takes the result.
FnReturn ==
    /\ fcall.fn # "none"
    /\ fcall' = NoFnCall
    /\ UNCHANGED <<wcall, hcall, ccall, rcall, LAYOUTS, styles, conv, bot>>

(***************************************************************************)
(* src/main.py: the Telegram conversation.  A message is a command, a      *)
(* photo, a document or a text; a text is its sequence of lines.  The      *)
(* strings of the program that are not ASCII are written in ASCII here:    *)
(* "Russkiy", "al-Arabiya", "Turkce" and "Qazaqsha" are the language names *)
(* of the prompts, "create another banner", "start over" and "finish" the  *)
(* three buttons of the follow-up keyboard.                                *)
(***************************************************************************)
WAITING_FOR_IMAGE == 1
WAITING_FOR_TEXT == 2
WAITING_FOR_SIZE == 3
WAITING_FOR_LAYOUT == 4
WAITING_FOR_ANOTHER_BANNER == 5

\* ConversationHandler.END; also the state of a chat with no conversation
END == -1

\* The languages that the prompts of handle_image and handle_text list.
PromptLanguages == {"Russkiy", "English", "al-Arabiya", "Turkce", "Qazaqsha"}

\* context.user_data.get('language', ...) of handle_layout
DefaultLanguage == "Russkiy"

Command(name) ==
    [kind |-> "command", command |-> name, image |-> "none", mime_type |-> "none",
     decodes |-> FALSE, text |-> <<>>]

Photo(image, decodes) ==
    [kind |-> "photo", command |-> "none", image |-> image, mime_type |-> "none",
     decodes |-> decodes, text |-> <<>>]

Document(image, mime_type, decodes) ==
    [kind |-> "document", command |-> "none", image |-> image, mime_type |-> mime_type,
     decodes |-> decodes, text |-> <<>>]

Text(lines) ==
    [kind |-> "text", command |-> "none", image |-> "none", mime_type |-> "none",
     decodes |-> FALSE, text |-> lines]

\* "imgA" is 2890 x 2890 pixels, "imgB" is not.
Images == {"imgA", "imgB"}

\* handle_image stores the bytes as sent, or the PNG of the image resized
\* to 2890 x 2890.
StoredImage(image) == IF image = "imgA" THEN image ELSE "imgB resized to 2890x2890"

\* str.strip() of one line
StripLine(line) == IF line = " English " THEN "English" ELSE line

\* update.message.text.strip().split('\n'): blank lines at either end go
RECURSIVE SkipBlank(_)
SkipBlank(lines) ==
    IF lines # <<>> /\ Head(lines) = "" THEN SkipBlank(Tail(lines)) ELSE lines

text_lines(lines) == Reverse(SkipBlank(Reverse(SkipBlank(lines))))

\* update.message.text as one string: a text of one line is that line.
MessageText(m) == IF Len(m.text) = 1 THEN m.text[1] ELSE "(several lines)"

\* filters.PHOTO | filters.Document.IMAGE
IsImageMessage(m) ==
    \/ m.kind = "photo"
    \/ m.kind = "document" /\ m.mime_type = "image/png"

\* filters.TEXT & ~filters.COMMAND
IsTextMessage(m) == m.kind = "text"

\* user_data[key] = value
Store(user_data, key, value) ==
    [k \in DOMAIN user_data \cup {key} |-> IF k = key THEN value ELSE user_data[k]]

NoRender ==
    [image |-> "none", headline |-> "none", subheadline |-> "none",
     disclaimer |-> "none", language |-> "none", size |-> "none", layout |-> "none"]

\* What a handler did: the state it returned, user_data after it, the
\* arguments of its compose call (NoRender when it made none) and the
\* languages its reply listed as available.
Outcome(state, user_data, composed, listed) ==
    [state |-> state, user_data |-> user_data, render |-> composed, listed |-> listed]

start(state, user_data, m) == Outcome(WAITING_FOR_IMAGE, user_data, NoRender, {})

\* help_command returns None: the conversation stays where it is.
help_command(state, user_data, m) == Outcome(state, user_data, NoRender, {})

cancel(state, user_data, m) == Outcome(END, user_data, NoRender, {})

handle_image(state, user_data, m) ==
    IF m.kind = "document" /\ m.mime_type # "image/png"
    THEN Outcome(WAITING_FOR_IMAGE, user_data, NoRender, {})
    ELSE IF m.kind \notin {"photo", "document"}
    THEN Outcome(WAITING_FOR_IMAGE, user_data, NoRender, {})
    ELSE IF ~m.decodes
    THEN Outcome(END, user_data, NoRender, {})
    ELSE Outcome(WAITING_FOR_TEXT, Store(user_data, "image_data", StoredImage(m.image)),
                 NoRender, PromptLanguages)

\* user_data.setdefault(key, value)
StoreIfAbsent(user_data, key, value) ==
    IF key \in DOMAIN user_data THEN user_data ELSE Store(user_data, key, value)

\* A faulty handle_text: a value that user_data already holds is kept.
handle_text_keeps_old(state, user_data, m) ==
    LET lines == text_lines(m.text)
    IN  IF Len(lines) < 4
        THEN Outcome(WAITING_FOR_TEXT, user_data, NoRender, PromptLanguages)
        ELSE IF StripLine(lines[4]) \notin AVAILABLE_LANGUAGES
        THEN Outcome(WAITING_FOR_TEXT, user_data, NoRender, PromptLanguages)
        ELSE Outcome(WAITING_FOR_SIZE,
                     StoreIfAbsent(StoreIfAbsent(StoreIfAbsent(StoreIfAbsent(user_data,
                         "headline", StripLine(lines[1])),
                         "subheadline", StripLine(lines[2])),
                         "disclaimer", StripLine(lines[3])),
                         "language", StripLine(lines[4])),
                     NoRender, {})

handle_text(state, user_data, m) ==
    LET lines == text_lines(m.text)
    IN  IF Len(lines) < 4
        THEN Outcome(WAITING_FOR_TEXT, user_data, NoRender, PromptLanguages)
        ELSE IF StripLine(lines[4]) \notin AVAILABLE_LANGUAGES
        THEN Outcome(WAITING_FOR_TEXT, user_data, NoRender, PromptLanguages)
        ELSE Outcome(WAITING_FOR_SIZE,
                     Store(Store(Store(Store(user_data,
                         "headline", StripLine(lines[1])),
                         "subheadline", StripLine(lines[2])),
                         "disclaimer", StripLine(lines[3])),
                         "language", StripLine(lines[4])),
                     NoRender, {})

\* A faulty handle_size: the size is stored before it is validated.
handle_size_stores_first(state, user_data, m) ==
    IF MessageText(m) \notin AVAILABLE_SIZES
    THEN Outcome(WAITING_FOR_SIZE, Store(user_data, "size", MessageText(m)), NoRender, {})
    ELSE Outcome(WAITING_FOR_LAYOUT, Store(user_data, "size", MessageText(m)), NoRender, {})

handle_size(state, user_data, m) ==
    IF MessageText(m) \notin AVAILABLE_SIZES
    THEN Outcome(WAITING_FOR_SIZE, user_data, NoRender, {})
    ELSE Outcome(WAITING_FOR_LAYOUT, Store(user_data, "size", MessageText(m)), NoRender, {})

\* The arguments handle_layout passes to compose.
RenderArgs(user_data, layout) ==
    [image |-> user_data["image_data"],
     headline |-> Get(user_data, "headline", ""),
     subheadline |-> Get(user_data, "subheadline", ""),
     disclaimer |-> Get(user_data, "disclaimer", ""),
     language |-> Get(user_data, "language", DefaultLanguage),
     size |-> user_data["size"], layout |-> layout]

KeptKeys == {"image_data", "headline", "subheadline", "disclaimer", "language"}

\* A faulty clean-up: size and layout stay in user_data.
keep_everything(user_data) == user_data

\* context.user_data.clear(), then the five kept values are put back
keep_image_and_text(user_data) == [k \in KeptKeys |-> user_data[k]]

\* compose_raises: compose, the save or the upload raised.
handle_layout(state, user_data, m, compose_raises) ==
    LET layout == MessageText(m)
        stored == Store(user_data, "layout", layout)
    IN  IF layout \notin AVAILABLE_LAYOUTS
        THEN Outcome(WAITING_FOR_LAYOUT, user_data, NoRender, {})
        ELSE IF ~({"image_data", "size"} \subseteq DOMAIN stored)
        THEN Outcome(END, EmptyDict, NoRender, {})
        ELSE IF compose_raises
        THEN Outcome(END, EmptyDict, NoRender, {})
        ELSE IF ~(KeptKeys \subseteq DOMAIN stored)
        THEN Outcome(END, EmptyDict, RenderArgs(stored, layout), {})
        ELSE Outcome(WAITING_FOR_ANOTHER_BANNER, keep_image_and_text(stored),
                     RenderArgs(stored, layout), {})

handle_another_banner(state, user_data, m) ==
    CASE MessageText(m) = "create another banner" ->
            Outcome(WAITING_FOR_SIZE, user_data, NoRender, {})
      [] MessageText(m) = "start over" ->
            Outcome(WAITING_FOR_IMAGE, user_data, NoRender, {})
      [] MessageText(m) = "finish" ->
            Outcome(END, EmptyDict, NoRender, {})
      [] OTHER ->
            Outcome(WAITING_FOR_ANOTHER_BANNER, user_data, NoRender, {})

\* conv_handler: the handler that takes message m in the given state.  A
\* chat with no conversation takes the entry point only; a conversation
\* takes the handler of its state, then the fallbacks.
conv_handler(state, m) ==
    IF state = END
    THEN (IF m.kind = "command" /\ m.command = "start" THEN "start" ELSE "none")
    ELSE CASE state = WAITING_FOR_IMAGE /\ IsImageMessage(m) -> "handle_image"
           [] state = WAITING_FOR_TEXT /\ IsTextMessage(m) -> "handle_text"
           [] state = WAITING_FOR_SIZE /\ IsTextMessage(m) -> "handle_size"
           [] state = WAITING_FOR_LAYOUT /\ IsTextMessage(m) -> "handle_layout"
           [] state = WAITING_FOR_ANOTHER_BANNER /\ IsTextMessage(m) ->
                  "handle_another_banner"
           [] m.kind = "command" /\ m.command = "cancel" -> "cancel"
           [] m.kind = "command" /\ m.command = "help" -> "help_command"
           [] OTHER -> "none"

(***************************************************************************)
(* The messages one user sends in one chat.                                *)
(***************************************************************************)
TextMessages ==
    {<<"H1", "S1", "D1", "English">>, <<"H2", "S2", "D2", "Arabic">>,
     <<"H1", "S1", "D1", " English ">>, <<"H1", "S1", "D1", "Russkiy">>,
     <<"H1", "S1", "", "">>,
     <<"1200x1200">>, <<"1200x628">>, <<"640x480">>,
     <<"Yango_photo">>, <<"Yango_Red">>, <<"Custom">>,
     <<"create another banner">>, <<"start over">>, <<"finish">>}

Messages ==
    {Command(c) : c \in {"start", "cancel", "help"}}
        \cup {Photo("imgA", TRUE), Photo("imgB", TRUE), Photo("imgB", FALSE)}
        \cup {Document("imgB", "image/png", TRUE), Document("imgA", "application/pdf", TRUE)}
        \cup {Text(t) : t \in TextMessages}

\* What the user supplied for the next render since the latest /start or
\* "start over": the image and the text as stored, the size and the layout
\* chosen since the latest render.
NothingSupplied ==
    [image |-> "none", headline |-> "none", subheadline |-> "none",
     disclaimer |-> "none", language |-> "none", size |-> "none", layout |-> "none"]

\* The latest update: the handler that took it, the state and user_data
\* it found, what it rendered, and the render before it.
NoUpdate ==
    [handler |-> "none", from |-> END, message |-> Command("none"),
     before |-> EmptyDict, render |-> NoRender, listed |-> {}, earlier |-> NoRender]

\* rendered: the arguments of the latest render since the latest /start or
\* "start over".
NoConversation ==
    [state |-> END, user_data |-> EmptyDict, supplied |-> NothingSupplied,
     rendered |-> NoRender, last |-> NoUpdate]

\* The record of what the user supplied, after handler took message m and
\* returned outcome o.
Supplied(s, handler, m, o) ==
    CASE handler = "start" -> NothingSupplied
      [] handler = "handle_image" /\ o.state = WAITING_FOR_TEXT ->
            [s EXCEPT !.image = StoredImage(m.image)]
      [] handler = "handle_text" /\ o.state = WAITING_FOR_SIZE ->
            [s EXCEPT !.headline = StripLine(text_lines(m.text)[1]),
                      !.subheadline = StripLine(text_lines(m.text)[2]),
                      !.disclaimer = StripLine(text_lines(m.text)[3]),
                      !.language = StripLine(text_lines(m.text)[4])]
      [] handler = "handle_size" /\ o.state = WAITING_FOR_LAYOUT ->
            [s EXCEPT !.size = MessageText(m)]
      [] handler = "handle_layout" /\ o.state # WAITING_FOR_LAYOUT ->
            [s EXCEPT !.layout = MessageText(m)]
      [] handler = "handle_another_banner" /\ o.state = WAITING_FOR_SIZE ->
            [s EXCEPT !.size = "none", !.layout = "none"]
      [] handler = "handle_another_banner" /\ o.state = WAITING_FOR_IMAGE ->
            NothingSupplied
      [] OTHER -> s

\* The conversation after handler took message m and returned outcome o.
Handled(handler, m, o) ==
    [state |-> o.state, user_data |-> o.user_data,
     supplied |-> Supplied(conv.supplied, handler, m, o),
     rendered |-> IF o.render # NoRender THEN o.render
                  ELSE IF Supplied(conv.supplied, handler, m, o) = NothingSupplied
                  THEN NoRender
                  ELSE conv.rendered,
     last |-> [handler |-> handler, from |-> conv.state, message |-> m,
               before |-> conv.user_data, render |-> o.render, listed |-> o.listed,
               earlier |-> conv.rendered]]

Start ==
    /\ \E m \in Messages :
        /\ conv_handler(conv.state, m) = "start"
        /\ conv' = Handled("start", m, start(conv.state, conv.user_data, m))
    /\ UNCHANGED <<wcall, hcall, ccall, rcall, fcall, LAYOUTS, styles, bot>>

Cancel ==
    /\ \E m \in Messages :
        /\ conv_handler(conv.state, m) = "cancel"
        /\ conv' = Handled("cancel", m, cancel(conv.state, conv.user_data, m))
    /\ UNCHANGED <<wcall, hcall, ccall, rcall, fcall, LAYOUTS, styles, bot>>

HelpCommand ==
    /\ \E m \in Messages :
        /\ conv_handler(conv.state, m) = "help_command"
        /\ conv' = Handled("help_command", m,
                           help_command(conv.state, conv.user_data, m))
    /\ UNCHANGED <<wcall, hcall, ccall, rcall, fcall, LAYOUTS, styles, bot>>

HandleImage ==
    /\ \E m \in Messages :
        /\ conv_handler(conv.state, m) = "handle_image"
        /\ conv' = Handled("handle_image", m,
                           handle_image(conv.state, conv.user_data, m))
    /\ UNCHANGED <<wcall, hcall, ccall, rcall, fcall, LAYOUTS, styles, bot>>

HandleText ==
    /\ \E m \in Messages :
        /\ conv_handler(conv.state, m) = "handle_text"
        /\ conv' = Handled("handle_text", m, handle_text(conv.state, conv.user_data, m))
    /\ UNCHANGED <<wcall, hcall, ccall, rcall, fcall, LAYOUTS, styles, bot>>

HandleSize ==
    /\ \E m \in Messages :
        /\ conv_handler(conv.state, m) = "handle_size"
        /\ conv' = Handled("handle_size", m, handle_size(conv.state, conv.user_data, m))
    /\ UNCHANGED <<wcall, hcall, ccall, rcall, fcall, LAYOUTS, styles, bot>>

HandleLayout ==
    /\ \E m \in Messages, compose_raises \in BOOLEAN :
        /\ conv_handler(conv.state, m) = "handle_layout"
        /\ conv' = Handled("handle_layout", m,
                           handle_layout(conv.state, conv.user_data, m, compose_raises))
    /\ UNCHANGED <<wcall, hcall, ccall, rcall, fcall, LAYOUTS, styles, bot>>

HandleAnotherBanner ==
    /\ \E m \in Messages :
        /\ conv_handler(conv.state, m) = "handle_another_banner"
        /\ conv' = Handled("handle_another_banner", m,
                           handle_another_banner(conv.state, conv.user_data, m))
    /\ UNCHANGED <<wcall, hcall, ccall, rcall, fcall, LAYOUTS, styles, bot>>

\* No handler of the conversation takes the message: nothing changes.
Unhandled ==
    /\ \E m \in Messages :
        /\ conv_handler(conv.state, m) = "none"
        /\ conv' = [conv EXCEPT !.last =
                       [handler |-> "none", from |-> conv.state, message |-> m,
                        before |-> conv.user_data, render |-> NoRender, listed |-> {},
                        earlier |-> conv.rendered]]
    /\ UNCHANGED <<wcall, hcall, ccall, rcall, fcall, LAYOUTS, styles, bot>>

(***************************************************************************)
(* The handlers of bot.py.  Every handler is a coroutine: between two      *)
(* awaits it runs alone, at an await another handler may run.              *)
(***************************************************************************)
Users == {"u1", "u2"}

Photos == {"photoA", "photoB"}

\* The texts a user sends: parts separated by "|".
BotTexts == {<<"a", "|", "b", "|", "c">>, <<" ", "b">>}

\* text.split("|")
RECURSIVE split_bar(_, _)
split_bar(text, part) ==
    IF text = <<>> THEN <<part>>
    ELSE IF Head(text) = "|" THEN <<part>> \o split_bar(Tail(text), <<>>)
    ELSE split_bar(Tail(text), Append(part, Head(text)))

\* f"temp_{user_id}.jpg"
file_path(user_id) == IF user_id = "u1" THEN "temp_u1.jpg" ELSE "temp_u2.jpg"

\* output_path of process_image: one name for every user.
result_path == "result.png"

\* os.remove(path) on the files that exist.
Remove(files, path) == [p \in DOMAIN files \ {path} |-> files[p]]

NoReply ==
    [kind |-> "none", user |-> "none", image |-> "none",
     headline |-> <<>>, subtitle |-> <<>>, disclaimer |-> <<>>]

Warning == [NoReply EXCEPT !.kind = "warning"]

\* What process_image saves for user_id from the file at file_path and the
\* stored text: (user_text[user_id] + ["", "", ""])[:3], each part stripped.
rendered_photo(user_id, files, user_text) ==
    LET parts == SubSeq(user_text[user_id] \o <<<<>>, <<>>, <<>>>>, 1, 3)
    IN  [kind |-> "photo", user |-> user_id, image |-> files[file_path(user_id)],
         headline |-> strip(parts[1]), subtitle |-> strip(parts[2]),
         disclaimer |-> strip(parts[3])]

\* One invocation of handle_photo: where it is, the photo it was sent, what
\* it replied, whether it raised, and whose files its cleanup removed.
NoInvocation ==
    [pc |-> "idle", photo |-> "none", sent |-> NoReply, raised |-> FALSE, removed |-> {}]

NoBot ==
    [user_text |-> EmptyDict, files |-> EmptyDict, run |-> [u \in Users |-> NoInvocation]]

\* handle_text: user_text[user_id] = text.split("|")
BotHandleText ==
    /\ \E u \in Users, t \in BotTexts :
        bot' = [bot EXCEPT !.user_text = Store(@, u, split_bar(t, <<>>))]
    /\ UNCHANGED <<wcall, hcall, ccall, rcall, fcall, LAYOUTS, styles, conv>>

\* handle_photo up to its first await: the warning, or photo.get_file().
HandlePhoto ==
    /\ \E u \in Users, p \in Photos :
        /\ bot.run[u].pc = "idle"
        /\ bot' = [bot EXCEPT !.run[u] =
                     IF u \notin DOMAIN bot.user_text
                     THEN [NoInvocation EXCEPT !.sent = Warning]
                     ELSE [NoInvocation EXCEPT !.pc = "get_file", !.photo = p]]
    /\ UNCHANGED <<wcall, hcall, ccall, rcall, fcall, LAYOUTS, styles, conv>>

\* get_file returned; file.download_to_drive(file_path) is awaited.
PhotoGetFile ==
    /\ \E u \in Users :
        /\ bot.run[u].pc = "get_file"
        /\ bot' = [bot EXCEPT !.run[u].pc = "download"]
    /\ UNCHANGED <<wcall, hcall, ccall, rcall, fcall, LAYOUTS, styles, conv>>

\* The download wrote the user's temporary file.
PhotoDownload ==
    /\ \E u \in Users :
        /\ bot.run[u].pc = "download"
        /\ bot' = [bot EXCEPT !.files = Store(@, file_path(u), bot.run[u].photo),
                              !.run[u].pc = "process"]
    /\ UNCHANGED <<wcall, hcall, ccall, rcall, fcall, LAYOUTS, styles, conv>>

\* process_image saves result.png, which is opened and handed to
\* reply_photo; the reply is awaited.
PhotoProcess ==
    /\ \E u \in Users :
        /\ bot.run[u].pc = "process"
        /\ LET result == rendered_photo(u, bot.files, bot.user_text)
           IN  bot' = [bot EXCEPT !.files = Store(@, result_path, result),
                                  !.run[u].sent = result,
                                  !.run[u].pc = "cleanup"]
    /\ UNCHANGED <<wcall, hcall, ccall, rcall, fcall, LAYOUTS, styles, conv>>

\* The files os.remove takes away, in the order of the two calls; a path
\* that does not exist raises FileNotFoundError and ends the handler.
cleanup(user_id, files) ==
    IF file_path(user_id) \notin DOMAIN files
    THEN [files |-> files, raised |-> TRUE, removed |-> {}]
    ELSE IF result_path \notin DOMAIN files
    THEN [files |-> Remove(files, file_path(user_id)), raised |-> TRUE,
          removed |-> {user_id}]
    ELSE [files |-> Remove(Remove(files, file_path(user_id)), result_path),
          raised |-> FALSE, removed |-> {user_id, files[result_path].user}]

\* reply_photo returned: os.remove(file_path); os.remove(result_path).
PhotoCleanup ==
    /\ \E u \in Users :
        /\ bot.run[u].pc = "cleanup"
        /\ LET c == cleanup(u, bot.files)
           IN  bot' = [bot EXCEPT !.files = c.files,
                                  !.run[u].raised = c.raised,
                                  !.run[u].removed = c.removed,
                                  !.run[u].pc = "idle"]
    /\ UNCHANGED <<wcall, hcall, ccall, rcall, fcall, LAYOUTS, styles, conv>>

\* No call is under way.
Idle ==
    /\ wcall = NoWrapCall
    /\ hcall = NoHighlightCall
    /\ ccall = NoComposeCall
    /\ rcall = NoRenderCall
    /\ fcall = NoFnCall
    /\ conv = NoConversation
    /\ bot = NoBot

\* The wrap, highlight and HTTP steps read no layout: one catalog is enough.
Init ==
    /\ Idle
    /\ styles = LoadedStyles
    /\ LAYOUTS = [k \in CatalogKeys |->
                     PlainProfile("bottom_left", <<"headline", "subline", "disclaimer">>)]

\* config.json may hold any catalog of the family.
InitCompose ==
    /\ Idle
    /\ styles = LoadedStyles
    /\ LAYOUTS \in Catalogs

NextWrap == WrapWithLimitsMain \/ WrapWithLimitsApp \/ WrapText \/ WrapReturn

SpecWrap == Init /\ [][NextWrap]_vars

NextHighlight == DetectHighlights \/ DrawTextWithHighlights \/ HighlightReturn

SpecHighlight == Init /\ [][NextHighlight]_vars

NextRender == RenderImage \/ RenderImageJson \/ RenderImageJsonFile \/ AppRender \/ RenderRespond

SpecRender == Init /\ [][NextRender]_vars

NextCompose == ComposeMain \/ ComposeApp \/ ProcessImage \/ ComposeReturn

SpecCompose == InitCompose /\ [][NextCompose]_vars

NextStyle == ResolveStyleMain \/ ResolveStyleApp \/ GetGap \/ FnReturn

SpecStyle == InitCompose /\ [][NextStyle]_vars

NextConversation ==
    \/ Start \/ Cancel \/ HelpCommand \/ HandleImage \/ HandleText \/ HandleSize
    \/ HandleLayout \/ HandleAnotherBanner \/ Unhandled

SpecConversation == Init /\ [][NextConversation]_vars

\* Any interleaving of the handlers of bot.py at their awaits.
NextBot ==
    \/ BotHandleText \/ HandlePhoto \/ PhotoGetFile \/ PhotoDownload
    \/ PhotoProcess \/ PhotoCleanup

SpecBot == Init /\ [][NextBot]_vars

\* Any sequence of resolve_style, get_gap and compose calls.
NextCatalogs == NextCompose \/ NextStyle

SpecCatalogs == InitCompose /\ [][NextCatalogs]_vars

(***************************************************************************)
(* Properties of the word-wrap functions.                                  *)
(***************************************************************************)
WrapDone == wcall.impl # "none"

LastLine(lines) == lines[Len(lines)]

EndsWith(s, suffix) ==
    /\ Len(s) >= Len(suffix)
    /\ SubSeq(s, Len(s) - Len(suffix) + 1, Len(s)) = suffix

NoOverflowingWord(text, max_width) ==
    \A i \in 1..Len(split(text)) : text_width(split(text)[i], UnitFont) <= max_width

AllLinesFit(lines, max_width) ==
    \A i \in 1..Len(lines) : text_width(lines[i], UnitFont) <= max_width

\* C1: every call of wrap_with_limits with max_lines > 0 returns at most
\* max_lines lines, in main.py and in app.py.
C1_AtMostMaxLines ==
    (wcall.impl \in {"main", "app"} /\ wcall.max_lines > 0)
        => Len(wcall.lines) <= wcall.max_lines

\* C2: with the ellipsis flag set, a text that holds a word and a max_width
\* of at least the ellipsis glyph's width, the last returned line ends with
\* the ellipsis glyph and is no wider than max_width.
C2_EllipsisInvariant ==
    (/\ wcall.impl \in {"main", "app"}
     /\ wcall.ellipsis
     /\ split(wcall.text) # <<>>
     /\ wcall.max_width >= text_width(EllMain, UnitFont))
        => /\ wcall.lines # <<>>
           /\ EndsWith(LastLine(wcall.lines), EllMain)
           /\ text_width(LastLine(wcall.lines), UnitFont) <= wcall.max_width

\* C3 (as claimed): when no word of the text is wider than max_width, every
\* line returned by wrap_with_limits (main.py, app.py) and wrap_text (bot.py)
\* is no wider than max_width.
C3_LinesFit ==
    (WrapDone /\ NoOverflowingWord(wcall.text, wcall.max_width))
        => AllLinesFit(wcall.lines, wcall.max_width)

\* C3 (amended): the same, provided that a call with the ellipsis flag set
\* has a max_width of at least the width of the ellipsis string it appends.
C3_LinesFitWhenEllipsisFits ==
    (/\ WrapDone
     /\ NoOverflowingWord(wcall.text, wcall.max_width)
     /\ (wcall.impl = "app" /\ wcall.ellipsis)
            => wcall.max_width >= text_width(EllApp, UnitFont))
        => AllLinesFit(wcall.lines, wcall.max_width)

\* C3 witness: app.py wrapped a text of fitting words into two lines and
\* shortened the last one to make room for the ellipsis.
C3_Witness ==
    /\ wcall.impl = "app"
    /\ wcall.ellipsis
    /\ wcall.max_width >= text_width(EllApp, UnitFont)
    /\ NoOverflowingWord(wcall.text, wcall.max_width)
    /\ Len(wcall.lines) = 2
    /\ EndsWith(LastLine(wcall.lines), EllApp)
    /\ text_width(LastLine(wcall.lines), UnitFont) = wcall.max_width

(***************************************************************************)
(* Properties of detect_highlights.                                        *)
(***************************************************************************)
\* C4: in the order detect_highlights yields them, the spans of a line are
\* sorted ascending by start and pairwise non-overlapping, each within the
\* line (0 <= start < end <= len(line)); no character range claimed by an
\* earlier pattern is reported again by a later one.
C4_SpansSortedDisjoint ==
    hcall.done =>
        /\ \A i \in 1..Len(hcall.spans) :
              /\ 0 <= hcall.spans[i].start
              /\ hcall.spans[i].start < hcall.spans[i].end
              /\ hcall.spans[i].end <= Len(LineText(hcall.line))
        /\ \A i, j \in 1..Len(hcall.spans) :
              i < j => hcall.spans[i].end <= hcall.spans[j].start

(***************************************************************************)
(* Properties of the render entry points.                                  *)
(***************************************************************************)
RenderDone == rcall.endpoint # "none"

MainEndpoints == {"main:/render", "main:/render-json", "main:/render-json-file"}

\* C8: a render entry point called with a banner_size that is no key of
\* SIZES answers with an error, does not call compose and writes no file.
C8_UnknownSizeRejected ==
    (RenderDone /\ rcall.banner_size \notin SIZES)
        => /\ rcall.response.status >= 400
           /\ rcall.response.body = "error"
           /\ ~rcall.response.compose_called
           /\ ~rcall.response.file_written

\* C8 witness: /render got a decodable image and an unknown size and
\* answered 400.
C8_Witness ==
    /\ rcall.endpoint = "main:/render"
    /\ rcall.image = "valid"
    /\ rcall.banner_size \notin SIZES
    /\ rcall.response.status = 400

\* C9: every render endpoint answers undecodable image bytes with a 4xx
\* response, never a 5xx and never an image.
C9_MalformedImageIs4xx ==
    (RenderDone /\ rcall.image = "malformed")
        => /\ rcall.response.status >= 400
           /\ rcall.response.status < 500
           /\ rcall.response.body = "error"

(***************************************************************************)
(* Properties of compose and process_image.                                *)
(***************************************************************************)
ComposeDone == ccall.impl \in {"main", "app"}

\* The layout that compose uses for the call.
UsedLayout ==
    Get(LAYOUTS, ccall.layout_key,
        LAYOUTS[IF ccall.impl = "main" THEN "Yango_photo" ELSE "L1_basic"])

TextOps == SelectSeq(ccall.out.canvas, LAMBDA o : o.op = "text")

\* The kinds of the blocks drawn, in drawing order, one entry per block.
RECURSIVE Collapse(_)
Collapse(s) ==
    IF Len(s) <= 1 THEN s
    ELSE IF s[1] = s[2] THEN Collapse(Tail(s))
    ELSE <<s[1]>> \o Collapse(Tail(s))

DrawnKinds ==
    Collapse([i \in 1..Len(SelectSeq(TextOps, LAMBDA o : o.kind \in BlockKinds)) |->
                 SelectSeq(TextOps, LAMBDA o : o.kind \in BlockKinds)[i].kind])

DrawnStackKinds == SelectSeq(DrawnKinds, LAMBDA k : k # "disclaimer")

RECURSIVE IsSubseq(_, _)
IsSubseq(s, t) ==
    IF s = <<>> THEN TRUE
    ELSE IF t = <<>> THEN FALSE
    ELSE IF Head(s) = Head(t) THEN IsSubseq(Tail(s), Tail(t))
    ELSE IsSubseq(s, Tail(t))

Listed(kind) == \E i \in 1..Len(UsedLayout.text_stack) : UsedLayout.text_stack[i] = kind

Drawn(kind) == \E i \in 1..Len(TextOps) : TextOps[i].kind = kind

\* C5 (as claimed): for every banner size and layout, compose draws only
\* block kinds listed in the layout's text_stack, in text_stack order.
C5_OnlyStackKindsInOrder ==
    ComposeDone => IsSubseq(DrawnKinds, UsedLayout.text_stack)

\* The layouts and sizes whose disclaimer main.py draws at a position of
\* its own, whatever text_stack lists.
OwnDisclaimer ==
    /\ ccall.impl = "main"
    /\ ccall.layout_key \in ProAppLayouts \cup RedLayouts
    /\ ccall.banner_key \in {"1200x1200", "1200x1500"}

\* C5 (amended): on the anchor-based path (every size but 1200x628) a
\* headline or subline is drawn only if text_stack lists it, and the two in
\* text_stack order; a disclaimer is drawn only if text_stack lists it,
\* except under the Yango_pro_app / Yango_app / Yango_Red / Yango_pro_Red
\* layouts at 1200x1200 and 1200x1500; and where the disclaimer has no
\* position of its own (app.py; main.py outside 1080x1920 and those
\* layouts) all drawn blocks are in text_stack order.
C5_StackKindsOnAnchorPath ==
    (ComposeDone /\ ccall.out.path = "anchor") =>
        /\ IsSubseq(DrawnStackKinds, UsedLayout.text_stack)
        /\ Drawn("disclaimer") => (Listed("disclaimer") \/ OwnDisclaimer)
        /\ (ccall.impl = "app" \/ (ccall.banner_key # "1080x1920" /\ ~OwnDisclaimer))
              => IsSubseq(DrawnKinds, UsedLayout.text_stack)

\* C5 witness: main.py, anchor path, a disclaimer text that text_stack does
\* not list: headline and subline are drawn, the disclaimer is not.
C5_Witness ==
    /\ ccall.impl = "main"
    /\ ccall.out.path = "anchor"
    /\ ccall.disclaimer # <<>>
    /\ ~Listed("disclaimer")
    /\ DrawnKinds = <<"headline", "subline">>

\* The font metrics, line height and canvas size as the claim writes them.
CeilLineHeight(size, lh_tenths) == ((size + size \div 4) * lh_tenths + 9) \div 10

StackHeight ==
    SumSeq([i \in 1..Len(ccall.out.measured) |->
              CeilLineHeight(ccall.out.measured[i].size, ccall.out.measured[i].line_height)
                  * ccall.out.measured[i].lines])
        + SumSeq([i \in 1..(Len(ccall.out.measured) - 1) |->
                    get_gap(UsedLayout, ccall.out.measured[i].key,
                            ccall.out.measured[i + 1].key, ccall.banner_key)])

BottomAnchored ==
    ccall.out.anchor \notin {"center", "top_left", "top_right"}

\* The per-(layout, banner-size) corrections of the bottom_center anchor.
Correction ==
    IF ccall.impl = "main" /\ ccall.out.anchor = "bottom_center"
    THEN CASE ccall.banner_key = "1080x1920" -> 200
           [] ccall.banner_key = "1200x1500" /\ ccall.layout_key \in ProAppLayouts -> 200
           [] ccall.banner_key = "1200x1200" /\ ccall.layout_key \in ProAppLayouts -> 170
           [] ccall.banner_key = "1200x1200" /\ ccall.layout_key \in RedLayouts -> 40
           [] ccall.banner_key = "1200x1500" /\ ccall.layout_key \in RedLayouts -> 240
           [] OTHER -> 0
    ELSE 0

\* main.py places a bottom_center stack at 1080x1920 from a literal.
LiteralBottom ==
    /\ ccall.impl = "main"
    /\ ccall.out.anchor = "bottom_center"
    /\ ccall.banner_key = "1080x1920"

\* C6 (as claimed): on the anchor path total_h is the sum of the block
\* heights ceil((ascent + descent) * line_height) * len(lines) plus the
\* gaps, and every bottom-anchored layout has, before the correction,
\* y + total_h = canvas height - pad.bottom.
C6_StackHeightBottomAnchor ==
    (ComposeDone /\ ccall.out.path = "anchor") =>
        /\ ccall.out.total_h = StackHeight
        /\ BottomAnchored =>
              ccall.out.y + Correction + ccall.out.total_h
                  = CanvasHeight(ccall.banner_key) - ccall.out.pad.bottom

\* C6 (amended): the same, except that a bottom_center layout at 1080x1920
\* is placed from the literal 250 (50 + 200) instead of pad.bottom:
\* there y + total_h = canvas height - 250.
C6_StackHeightBottomAnchorOrLiteral ==
    (ComposeDone /\ ccall.out.path = "anchor") =>
        /\ ccall.out.total_h = StackHeight
        /\ (BottomAnchored /\ ~LiteralBottom) =>
              ccall.out.y + Correction + ccall.out.total_h
                  = CanvasHeight(ccall.banner_key) - ccall.out.pad.bottom
        /\ LiteralBottom =>
              ccall.out.y + ccall.out.total_h = CanvasHeight(ccall.banner_key) - 250

\* C6 witness: main.py measured two blocks and a gap and anchored them
\* bottom_center with a correction.
C6_Witness ==
    /\ ccall.impl = "main"
    /\ ccall.out.path = "anchor"
    /\ ccall.out.anchor = "bottom_center"
    /\ ccall.banner_key = "1200x1500"
    /\ ccall.layout_key \in ProAppLayouts
    /\ Len(ccall.out.measured) = 2
    /\ Len(ccall.out.gaps) = 1
    /\ ccall.out.total_h > 0

HasOverlay == \E i \in 1..Len(ccall.out.canvas) : ccall.out.canvas[i].op = "overlay"

\* C7 (as claimed): when the overlay is applied it is composited after all
\* text: it is the last thing painted.
C7_OverlayTopmost ==
    (ccall.impl # "none" /\ HasOverlay) =>
        ccall.out.canvas[Len(ccall.out.canvas)].op = "overlay"

\* C7 (amended): app.py composites the overlay after all text, so it is
\* the topmost layer; main.py composites it before any text is drawn and
\* bot.py composites its text layer over it, so there the overlay lies
\* under all text.
C7_OverlayOrderPerProgram ==
    (ccall.impl # "none" /\ HasOverlay) =>
        /\ ccall.impl = "app" =>
              \A i \in 1..Len(ccall.out.canvas) :
                  ccall.out.canvas[i].op = "overlay" <=> i = Len(ccall.out.canvas)
        /\ ccall.impl \in {"main", "bot"} =>
              \A i \in 1..Len(ccall.out.canvas) :
                  ccall.out.canvas[i].op = "overlay" <=> i = 1

\* C7 witness: main.py applied the overlay and drew text over it.
C7_Witness ==
    /\ ccall.impl = "main"
    /\ HasOverlay
    /\ ccall.out.canvas[1].op = "overlay"
    /\ Len(TextOps) >= 2

\* C10: compose with a layout key that LAYOUTS does not have renders
\* exactly as compose with the default layout key, the other inputs equal.
C10_UnknownLayoutAsDefault ==
    (ComposeDone /\ ccall.layout_key \notin DOMAIN LAYOUTS) =>
        ccall.out =
            IF ccall.impl = "main"
            THEN compose_main(ccall.headline, ccall.subline, ccall.disclaimer,
                              ccall.banner_key, "Yango_photo", ccall.apply_overlay,
                              ccall.language, ccall.installed)
            ELSE compose_app(ccall.headline, ccall.subline, ccall.disclaimer,
                             ccall.banner_key, "L1_basic", ccall.apply_overlay,
                             ccall.installed)



(***************************************************************************)
(* Properties of the shared catalogs.                                      *)
(***************************************************************************)
FnDone == fcall.fn # "none"

\* C11: whatever resolve_style and compose calls run, BASE_STYLE,
\* YANGO_PRO_APP_STYLE and LAYOUTS keep their load-time values: overrides
\* and the 1200x628 sizes go into the copy the call returns.
C11_CatalogsStayAsLoaded ==
    [][styles' = LoadedStyles /\ LAYOUTS' = LAYOUTS]_vars

\* A Yango_pro_app headline resolved for 1200x628 has size 84 in the copy
\* while the catalog still says 88.
C11_Witness ==
    /\ fcall.fn = "resolve_style_main"
    /\ fcall.layout_key = "Yango_pro_app"
    /\ fcall.banner_key = "1200x628"
    /\ fcall.style_key = "headline"
    /\ fcall.st.size["1200x628"] = 84
    /\ styles.YANGO_PRO_APP_STYLE.headline.size["1200x628"] = 88


(***************************************************************************)
(* Properties of the 1200x628 path.                                        *)
(***************************************************************************)
\* The lines of the text blocks on the canvas, in drawing order.
BlockOps == SelectSeq(TextOps, LAMBDA o : o.kind \in BlockKinds \cup {"subheadline"})

FixedTopCall == ccall.impl \in {"main", "bot"} /\ ccall.banner_key = "1200x628"

\* The block after a headline or subline block follows it in the flow:
\* main.py places its disclaimer from the bottom edge instead.
FollowsInFlow(o, next) ==
    /\ o.kind \in {"headline", "subline", "subheadline"}
    /\ next.kind # o.kind
    /\ (ccall.impl = "main" => next.kind # "disclaimer")

\* C12: at 1200x628, under any layout, the first line of the first drawn
\* block is at y = 40 and the block after a drawn headline or subline block
\* starts exactly 28 px below the bottom of that block's last line.
C12_FixedTopProfile ==
    (FixedTopCall /\ BlockOps # <<>>) =>
        /\ BlockOps[1].y = 40
        /\ \A i \in 1..(Len(BlockOps) - 1) :
              FollowsInFlow(BlockOps[i], BlockOps[i + 1]) =>
                  BlockOps[i + 1].y = BlockOps[i].y + BlockOps[i].size + 28


(***************************************************************************)
(* Properties of the alignment of the stacked blocks.                      *)
(***************************************************************************)
RightAnchors == {"top_right", "bottom_right"}

\* is_rtl_text(" ".join(lines)) of the drawn block of a kind
BlockIsRtl(kind) ==
    \E i \in 1..Len(TextOps) : TextOps[i].kind = kind /\ is_rtl_text(TextOps[i].text)

StyleOf(kind) ==
    IF ccall.impl = "main"
    THEN resolve_style_main(kind, ccall.layout_key, ccall.banner_key, ccall.language).st
    ELSE resolve_style_app(kind, ccall.layout_key, ccall.banner_key).st

LineWidth(o) == text_width(o.text, load_font("", o.size))

ContentWidth ==
    CanvasWidth(ccall.banner_key) - ccall.out.pad.left - ccall.out.pad.right

\* Where a line of width lw starts under an alignment.
AlignedX(align, lw) ==
    CASE align = "center" -> ccall.out.x + (ContentWidth - lw) \div 2
      [] align = "right"  -> ccall.out.x + ContentWidth - lw
      [] OTHER            -> ccall.out.x

ClaimedAlign(kind) ==
    IF BlockIsRtl(kind) /\ ccall.out.anchor \in RightAnchors
    THEN "right"
    ELSE Get(StyleOf(kind), "align", "left")

MainFamily ==
    IF ccall.banner_key = "1080x1920" THEN "aligned"
    ELSE IF ccall.layout_key \in ProAppLayouts THEN "pro_app"
    ELSE IF ccall.layout_key \in RedLayouts THEN "red"
    ELSE "aligned"

\* The lines that compose places by an alignment: the stack of app.py, and
\* of main.py the stack at 1080x1920 less its disclaimer and the stack of
\* the layouts outside the Yango_pro_app and Red families.
AlignedOp(o) ==
    /\ o.kind \in BlockKinds
    /\ ccall.out.path = "anchor"
    /\ \/ ccall.impl = "app"
       \/ /\ ccall.impl = "main"
          /\ MainFamily = "aligned"
          /\ ccall.banner_key = "1080x1920" => o.kind # "disclaimer"

\* The headline and subline lines that main.py places by layout family.
FamilyOp(o) ==
    /\ o.kind \in {"headline", "subline"}
    /\ ccall.out.path = "anchor"
    /\ ccall.impl = "main"
    /\ MainFamily \in {"pro_app", "red"}

ArabicRightX(o) ==
    CanvasWidth(ccall.banner_key) - get_arabic_right_margin(ccall.banner_key) - LineWidth(o)

\* C13 (as claimed): a block is right-aligned exactly when its text is
\* right-to-left and the anchor is top_right or bottom_right, and has the
\* style's alignment (left if none) otherwise, whatever the language tag.
C13_AlignByTextAndAnchor ==
    ComposeDone =>
        \A i \in 1..Len(TextOps) :
            AlignedOp(TextOps[i]) =>
                TextOps[i].x = AlignedX(ClaimedAlign(TextOps[i].kind), LineWidth(TextOps[i]))

\* C13 (amended): that rule holds in app.py, and in main.py for the
\* aligned lines when the language tag is not Arabic; under the Arabic tag
\* main.py sets every aligned line flush to the Arabic right margin, and
\* the Yango_pro_app and Red families place headline and subline at the
\* style's left margin (150 if none), or centred on the canvas, or under
\* the Arabic tag flush to the Arabic right margin, whatever the alignment.
C13_AlignByTextAnchorAndLanguage ==
    ComposeDone =>
        \A i \in 1..Len(TextOps) :
            LET o == TextOps[i]
            IN  /\ AlignedOp(o) =>
                      o.x = IF ccall.impl = "main" /\ ccall.language = "Arabic"
                            THEN ArabicRightX(o)
                            ELSE AlignedX(ClaimedAlign(o.kind), LineWidth(o))
                /\ FamilyOp(o) =>
                      o.x = IF ccall.language = "Arabic" THEN ArabicRightX(o)
                            ELSE IF MainFamily = "pro_app"
                            THEN Get(Get(StyleOf(o.kind), "left_margin", EmptyDict),
                                     ccall.banner_key, 150)
                            ELSE (CanvasWidth(ccall.banner_key) - LineWidth(o)) \div 2

\* A right-to-left subline under a right anchor and the English tag is
\* drawn flush right although its style names no alignment.
C13_Witness ==
    /\ ccall.impl = "main"
    /\ ccall.language = "English"
    /\ ccall.out.anchor \in RightAnchors
    /\ \E i \in 1..Len(TextOps) :
          /\ TextOps[i].kind = "subline"
          /\ AlignedOp(TextOps[i])
          /\ is_rtl_text(TextOps[i].text)
          /\ "align" \notin DOMAIN StyleOf("subline")
          /\ TextOps[i].x = ccall.out.x + ContentWidth - LineWidth(TextOps[i])
          /\ TextOps[i].x # ccall.out.x


(***************************************************************************)
(* Properties of wrap_with_limits: wrapping again, truncation to one line. *)
(***************************************************************************)
\* wrap_with_limits of the same program on the returned lines joined by
\* single spaces, at the same max_width, max_lines and ellipsis flag.
WrappedAgain ==
    IF wcall.impl = "main"
    THEN wrap_with_limits_main(join(wcall.lines), UnitFont, wcall.max_width,
                               wcall.max_lines, wcall.ellipsis)
    ELSE wrap_with_limits_app(join(wcall.lines), UnitFont, wcall.max_width,
                              wcall.max_lines, wcall.ellipsis)

\* C14: wrapping is idempotent: for every text, max_width and max_lines,
\* wrapping the single-space concatenation of the returned lines returns
\* the same line sequence.
C14_WrapIdempotent ==
    wcall.impl \in {"main", "app"} => WrappedAgain = wcall.lines


\* The lines of the greedy wrap before any limit is applied.
NaturalLines ==
    WrapLoop(split(normalize_text(wcall.text)), <<>>, <<>>, UnitFont, wcall.max_width)

\* C15: with max_lines = 1 and the ellipsis flag set, a text that wraps
\* naturally to two lines comes back as exactly one line that ends with the
\* ellipsis glyph and is no wider than max_width.
C15_OneLineWithEllipsis ==
    (/\ wcall.impl \in {"main", "app"}
     /\ wcall.max_lines = 1
     /\ wcall.ellipsis
     /\ Len(NaturalLines) = 2)
        => /\ Len(wcall.lines) = 1
           /\ EndsWith(wcall.lines[1], EllMain)
           /\ text_width(wcall.lines[1], UnitFont) <= wcall.max_width


(***************************************************************************)
(* Properties of resolve_style and get_gap.                                *)
(***************************************************************************)
ResolveDone == fcall.fn \in {"resolve_style_main", "resolve_style_app"}

\* The styleOverrides of the call's layout for the call's kind, {} if the
\* layout is unknown or has none.
OverridesOfCall ==
    Get(Get(Get(LAYOUTS, fcall.layout_key, EmptyDict), "styleOverrides", EmptyDict),
        fcall.style_key, EmptyDict)

\* st is base with the overrides applied: the keys of the size map one by
\* one, every other key as a whole, and the rest as in base.
IsOverridden(st, base, overrides) ==
    /\ DOMAIN st = DOMAIN base \cup DOMAIN overrides
    /\ \A k \in DOMAIN st :
          IF k = "size"
          THEN LET osize == Get(overrides, "size", EmptyDict)
               IN  /\ DOMAIN st.size = DOMAIN base.size \cup DOMAIN osize
                   /\ \A b \in DOMAIN st.size :
                         st.size[b] = IF b \in DOMAIN osize THEN osize[b]
                                      ELSE base.size[b]
          ELSE st[k] = IF k \in DOMAIN overrides THEN overrides[k] ELSE base[k]

\* C16 (as claimed): for every kind, layout and banner size resolve_style
\* returns the base style of the kind with the layout's styleOverrides
\* applied, and fails for a kind the style catalog lacks.
C16_BaseStyleWithOverrides ==
    ResolveDone =>
        IF fcall.style_key \in DOMAIN BASE_STYLE
        THEN /\ ~fcall.raised
             /\ IsOverridden(fcall.st, BASE_STYLE[fcall.style_key], OverridesOfCall)
        ELSE fcall.raised

\* The calls that main.py answers from YANGO_PRO_APP_STYLE.
ProAppCall ==
    /\ fcall.fn = "resolve_style_main"
    /\ fcall.layout_key \in {"Yango_pro_app", "Yango_app"}
    /\ fcall.banner_key \in {"1200x1200", "1200x1500", "1200x628"}
    /\ fcall.style_key \in DOMAIN YANGO_PRO_APP_STYLE

\* The sizes main.py writes into the Yango_pro_app style at 1200x628.
ProAppOverrides ==
    IF fcall.banner_key # "1200x628" THEN EmptyDict
    ELSE [size |-> ("1200x628" :> (IF fcall.style_key = "headline" THEN 84 ELSE 32))]

\* C16 (amended): as claimed, except that main.py, for layout Yango_pro_app
\* or Yango_app at 1200x1200, 1200x1500 or 1200x628 and a kind that
\* YANGO_PRO_APP_STYLE holds, returns that catalog's style with no
\* styleOverrides applied, its 1200x628 size set to 84 (headline) or 32
\* (subline) when the banner size is 1200x628.
C16_BaseOrProAppStyle ==
    ResolveDone =>
        IF ProAppCall
        THEN /\ ~fcall.raised
             /\ IsOverridden(fcall.st, YANGO_PRO_APP_STYLE[fcall.style_key], ProAppOverrides)
        ELSE IF fcall.style_key \in DOMAIN BASE_STYLE
        THEN /\ ~fcall.raised
             /\ IsOverridden(fcall.st, BASE_STYLE[fcall.style_key], OverridesOfCall)
        ELSE fcall.raised

\* A headline resolved under a layout that overrides its 1200x1200 size and
\* its line height: those two are the layout's, the other sizes and keys
\* the base style's.
C16_Witness ==
    /\ ResolveDone
    /\ ~ProAppCall
    /\ fcall.style_key = "headline"
    /\ "size" \in DOMAIN OverridesOfCall
    /\ fcall.st.size["1200x1200"] = 80
    /\ fcall.st.size["1200x1500"] = 96
    /\ fcall.st.line_height = 12
    /\ fcall.st.max_lines = 2


GapSpecial == Get(fcall.layout.gap, "special", <<>>)

\* The special entries whose pair is (prev_key, next_key) and whose size is
\* null or the banner size of the call.
MatchingSpecial ==
    {i \in 1..Len(GapSpecial) :
        /\ GapSpecial[i][1] = fcall.prev_key
        /\ GapSpecial[i][2] = fcall.next_key
        /\ GapSpecial[i][4] \in {"None", fcall.banner_key}}

\* C17: get_gap returns the gap of the first special entry that matches
\* the pair and the banner size, and the layout's default gap (24 when the
\* layout names none) when no special entry matches.
C17_FirstMatchingSpecialOrDefault ==
    fcall.fn = "get_gap" =>
        IF MatchingSpecial # {}
        THEN \E i \in MatchingSpecial :
                /\ \A j \in MatchingSpecial : i <= j
                /\ fcall.gap = GapSpecial[i][3]
        ELSE fcall.gap = Get(fcall.layout.gap, "default", 24)

\* Two entries match and the first of them, not the last, gives the gap.
C17_Witness ==
    /\ fcall.fn = "get_gap"
    /\ Cardinality(MatchingSpecial) = 2
    /\ \E i \in MatchingSpecial, j \in MatchingSpecial :
          /\ i < j
          /\ GapSpecial[i][3] # GapSpecial[j][3]
          /\ fcall.gap = GapSpecial[i][3]


(***************************************************************************)
(* Properties of compose as a function of its inputs.                      *)
(***************************************************************************)
\* The same call made again, in the state the earlier calls left behind.
ComposedAgain ==
    IF ccall.impl = "main"
    THEN compose_main(ccall.headline, ccall.subline, ccall.disclaimer, ccall.banner_key,
                      ccall.layout_key, ccall.apply_overlay, ccall.language,
                      ccall.installed)
    ELSE compose_app(ccall.headline, ccall.subline, ccall.disclaimer, ccall.banner_key,
                     ccall.layout_key, ccall.apply_overlay, ccall.installed)

Trimmed(text) == IF strip(text) = <<>> THEN <<>> ELSE text

\* The same call with every whitespace-only text given as "".
ComposedTrimmed ==
    IF ccall.impl = "main"
    THEN compose_main(Trimmed(ccall.headline), Trimmed(ccall.subline),
                      Trimmed(ccall.disclaimer), ccall.banner_key, ccall.layout_key,
                      ccall.apply_overlay, ccall.language, ccall.installed)
    ELSE compose_app(Trimmed(ccall.headline), Trimmed(ccall.subline),
                     Trimmed(ccall.disclaimer), ccall.banner_key, ccall.layout_key,
                     ccall.apply_overlay, ccall.installed)

\* C19: a block whose text is empty or whitespace-only takes no space on
\* any path of compose, 1200x628 included: everything is drawn where it is
\* drawn when that text is "".
C19_BlankBlockTakesNoSpace ==
    ComposeDone => ccall.out.canvas = ComposedTrimmed.canvas


(***************************************************************************)
(* Properties of the stack origin.                                         *)
(***************************************************************************)
\* The origin as a function of the anchor kind, the canvas size, the
\* padding, the content width and the stack height alone.  bottom_center is
\* an anchor of main.py only; app.py reads it as an unknown anchor.
PureOrigin(anchor, w, h, pad, max_w, total_h) ==
    [x |-> IF anchor \in {"top_right", "bottom_right"} THEN w - pad.right - max_w
           ELSE IF anchor = "bottom_center" /\ ccall.impl = "main" THEN (w - max_w) \div 2
           ELSE pad.left,
     y |-> IF anchor \in {"top_left", "top_right"} THEN pad.top
           ELSE IF anchor = "center" THEN (h - total_h) \div 2
           ELSE h - pad.bottom - total_h]

OriginOfCall ==
    PureOrigin(ccall.out.anchor, CanvasWidth(ccall.banner_key),
               CanvasHeight(ccall.banner_key), ccall.out.pad, ContentWidth,
               ccall.out.total_h)

\* C20 (as claimed): the origin compose computes depends on the anchor
\* kind, canvas size, padding, content width and stack height only, not on
\* the layout name, the banner-size key or the language.
C20_OriginByGeometryOnly ==
    (ComposeDone /\ ccall.out.path = "anchor") =>
        /\ ccall.out.x = OriginOfCall.x
        /\ ccall.out.y = OriginOfCall.y

\* How far main.py moves the stack at 1080x1920 before it draws.
TallShift ==
    IF ccall.layout_key \in ProAppLayouts THEN 0 - 30
    ELSE IF ccall.layout_key \in RedLayouts THEN 200
    ELSE 50

StackOps == SelectSeq(TextOps, LAMBDA o : o.kind \in {"headline", "subline"})

\* C20 (amended): that holds in app.py, and in main.py for every anchor but
\* bottom_center.  For bottom_center main.py lowers y by the correction of
\* the (layout, banner size) pair, and at 1080x1920 sets y from the literal
\* 250 in place of the bottom padding; at 1080x1920 it then draws the stack
\* of headline and subline from y - 30, y + 200 or y + 50 by layout family.
C20_OriginByGeometryAndCorrection ==
    (ComposeDone /\ ccall.out.path = "anchor") =>
        /\ ccall.out.x = OriginOfCall.x
        /\ ccall.out.y = IF LiteralBottom
                         THEN CanvasHeight(ccall.banner_key) - 250 - ccall.out.total_h
                         ELSE OriginOfCall.y - Correction
        /\ (ccall.impl = "main" /\ ccall.banner_key = "1080x1920" /\ StackOps # <<>>) =>
              StackOps[1].y = ccall.out.y + TallShift

\* main.py anchored a stack that has height bottom_center under a layout
\* and size with a correction: the origin is that much above the plain one.
C20_Witness ==
    /\ ccall.impl = "main"
    /\ ccall.out.path = "anchor"
    /\ ccall.out.anchor = "bottom_center"
    /\ ccall.layout_key \in ProAppLayouts
    /\ ccall.banner_key = "1200x1200"
    /\ ccall.out.total_h > 0
    /\ ccall.out.y = OriginOfCall.y - 170
    /\ ccall.out.x = OriginOfCall.x

(***************************************************************************)
(* Missing resources.                                                      *)
(***************************************************************************)
RenderCallDone == ccall.impl # "none"

\* C21: a missing overlay file never aborts a render: every render function
\* (compose of main.py and app.py, process_image of bot.py) skips an absent
\* overlay and still returns an image.
C21_MissingOverlayStillRenders ==
    (RenderCallDone /\ ~ccall.installed) => ccall.out.path # "raised"

(***************************************************************************)
(* Greedy wrapping.                                                        *)
(***************************************************************************)
\* The wrap functions the claim names: wrap_with_limits of main.py and
\* wrap_text of bot.py.
GreedyCall == wcall.impl \in {"main", "bot"} /\ wcall.max_lines = 0

\* The words the greedy loop walks: main.py splits the normalised text,
\* bot.py the text itself.
WalkedWords ==
    IF wcall.impl = "main" THEN split(normalize_text(wcall.text)) ELSE split(wcall.text)

FirstWord(line) == split(line)[1]

\* Every line fits or is one word alone, and a line was committed only
\* when the next word did not fit on it.
GreedyLines(lines, max_width) ==
    /\ \A i \in 1..Len(lines) :
          \/ text_width(lines[i], UnitFont) <= max_width
          \/ Len(split(lines[i])) = 1
    /\ \A i \in 1..(Len(lines) - 1) :
          text_width(lines[i] \o <<" ">> \o FirstWord(lines[i + 1]), UnitFont) > max_width

\* C22 (as claimed): with no max-lines limit the wrap functions wrap
\* greedily and drop, split or reorder no word: the output lines joined by
\* single spaces are the whitespace-normalised input.
C22_GreedyKeepsInput ==
    GreedyCall =>
        /\ GreedyLines(wcall.lines, wcall.max_width)
        /\ join(wcall.lines) = join(split(wcall.text))

\* C22 (amended): the same of the words the loop walks.  wrap_with_limits
\* of main.py reshapes and reorders a text that holds Arabic letters before
\* it splits it, so its lines joined by single spaces are the
\* whitespace-normalised normalize_text(input); for a text without Arabic
\* letters, and for wrap_text of bot.py, that is the whitespace-normalised
\* input.
C22_GreedyKeepsWalkedWords ==
    GreedyCall =>
        /\ GreedyLines(wcall.lines, wcall.max_width)
        /\ join(wcall.lines) = join(WalkedWords)
        /\ (wcall.impl = "bot" \/ ~HasArabic(wcall.text)) =>
              join(wcall.lines) = join(split(wcall.text))

\* Two words that each fit but do not fit together came back as exactly
\* two lines, one word each (the "Hello" / "World" scenario).
C22_Witness ==
    /\ GreedyCall
    /\ wcall.text = <<"a", " ", "W">>
    /\ wcall.max_width = 3
    /\ wcall.lines = << <<"a">>, <<"W">> >>

(***************************************************************************)
(* Properties of the conversation of main.py.                              *)
(***************************************************************************)
Rendered == conv.last.render # NoRender

\* C23: after handle_layout renders a banner, user_data holds exactly the
\* keys image_data, headline, subheadline, disclaimer and language with the
\* values used for that render (size and layout are absent) and the
\* conversation waits for the follow-up choice; "create another banner"
\* then moves to WAITING_FOR_SIZE with user_data as it was, and a render
\* that follows an earlier one uses the same image and text.
C23_RenderKeepsImageAndText ==
    /\ Rendered =>
          /\ conv.last.handler = "handle_layout"
          /\ conv.state = WAITING_FOR_ANOTHER_BANNER
          /\ DOMAIN conv.user_data = KeptKeys
          /\ conv.user_data["image_data"] = conv.last.render.image
          /\ conv.user_data["headline"] = conv.last.render.headline
          /\ conv.user_data["subheadline"] = conv.last.render.subheadline
          /\ conv.user_data["disclaimer"] = conv.last.render.disclaimer
          /\ conv.user_data["language"] = conv.last.render.language
    /\ (/\ conv.last.handler = "handle_another_banner"
        /\ MessageText(conv.last.message) = "create another banner") =>
          /\ conv.state = WAITING_FOR_SIZE
          /\ conv.user_data = conv.last.before
    /\ (Rendered /\ conv.last.earlier # NoRender) =>
          /\ conv.last.render.image = conv.last.earlier.image
          /\ conv.last.render.headline = conv.last.earlier.headline
          /\ conv.last.render.subheadline = conv.last.earlier.subheadline
          /\ conv.last.render.disclaimer = conv.last.earlier.disclaimer
          /\ conv.last.render.language = conv.last.earlier.language

\* A second banner of another size was rendered from the image and the
\* text of the first.
C23_Witness ==
    /\ Rendered
    /\ conv.last.earlier # NoRender
    /\ conv.last.earlier.size # conv.last.render.size
    /\ conv.last.render.image = conv.last.earlier.image
    /\ DOMAIN conv.user_data = KeptKeys
    /\ conv.state = WAITING_FOR_ANOTHER_BANNER

\* The language line of the latest message when it has four lines.
FourLines == IsTextMessage(conv.last.message) /\ Len(text_lines(conv.last.message.text)) >= 4

LanguageLine == StripLine(text_lines(conv.last.message.text)[4])

\* C24: every language that the prompts of handle_image and handle_text
\* list is accepted by the validation of handle_text: a four-line message
\* whose fourth line is a listed language, sent after a reply that listed
\* the languages, moves on to WAITING_FOR_SIZE.
C24_ListedLanguagesAccepted ==
    (/\ conv.last.handler = "handle_text"
     /\ FourLines
     /\ LanguageLine \in PromptLanguages) => conv.state = WAITING_FOR_SIZE

\* C26: compose is invoked only by handle_layout in WAITING_FOR_LAYOUT and
\* only after an image, a four-line text with a valid language, a size and
\* a layout were supplied, in that order, since the latest /start or
\* "start over"; the render uses exactly that image and text and the most
\* recent size and layout, never a missing or left-over value.
C26_RenderUsesWhatWasSupplied ==
    /\ Rendered =>
          /\ conv.last.handler = "handle_layout"
          /\ conv.last.from = WAITING_FOR_LAYOUT
          /\ conv.last.render = conv.supplied
          /\ conv.supplied.image \in {StoredImage(image) : image \in Images}
          /\ conv.supplied.language \in AVAILABLE_LANGUAGES
          /\ conv.supplied.size \in AVAILABLE_SIZES
          /\ conv.supplied.layout \in AVAILABLE_LAYOUTS
          /\ conv.supplied.layout = MessageText(conv.last.message)
    /\ conv.supplied.layout # "none" => conv.supplied.size # "none"
    /\ conv.supplied.size # "none" => conv.supplied.language # "none"
    /\ conv.supplied.language # "none" => conv.supplied.image # "none"

\* A banner was rendered in a conversation that followed a cancelled one
\* which had stored another image and another headline.
C26_Witness ==
    /\ Rendered
    /\ conv.last.from = WAITING_FOR_LAYOUT
    /\ conv.last.render = conv.supplied
    /\ "size" \in DOMAIN conv.last.before
    /\ conv.last.before["size"] = conv.supplied.size
    /\ conv.last.render.headline = "H2"

\* The latest update was an input that its state does not accept.
InvalidInput ==
    \/ /\ conv.last.from = WAITING_FOR_IMAGE
       /\ conv.last.message.kind = "document"
       /\ conv.last.handler = "none"
    \/ /\ conv.last.handler = "handle_text"
       /\ (~FourLines \/ LanguageLine \notin AVAILABLE_LANGUAGES)
    \/ /\ conv.last.handler = "handle_size"
       /\ MessageText(conv.last.message) \notin AVAILABLE_SIZES
    \/ /\ conv.last.handler = "handle_layout"
       /\ MessageText(conv.last.message) \notin AVAILABLE_LAYOUTS
    \/ /\ conv.last.handler = "handle_another_banner"
       /\ MessageText(conv.last.message) \notin
              {"create another banner", "start over", "finish"}

\* C27: an invalid input (a document that is not an image, fewer than four
\* lines, an unknown language, size or layout, an unrecognised follow-up
\* choice) leaves the conversation in the same state, leaves user_data
\* unchanged and renders nothing.
C27_InvalidInputChangesNothing ==
    InvalidInput =>
        /\ conv.state = conv.last.from
        /\ conv.user_data = conv.last.before
        /\ conv.last.render = NoRender

\* An unknown size was sent after the image and the text were stored.
C27_Witness ==
    /\ conv.last.handler = "handle_size"
    /\ MessageText(conv.last.message) = "640x480"
    /\ conv.state = WAITING_FOR_SIZE
    /\ DOMAIN conv.user_data = KeptKeys
    /\ conv.user_data = conv.last.before

(***************************************************************************)
(* Placement of the disclaimer of the Red layouts and of 1080x1920.        *)
(***************************************************************************)
DisclaimerOps == SelectSeq(TextOps, LAMBDA o : o.kind = "disclaimer")

\* The margin of the disclaimer from the bottom (and, for the Red layouts,
\* from the right edge) that the comments of compose name.
DisclaimerMargin ==
    IF ccall.banner_key = "1200x1200" THEN 40
    ELSE IF ccall.banner_key = "1200x1500" THEN 80
    ELSE 50

RedDisclaimerCall ==
    /\ ccall.impl = "main"
    /\ ccall.layout_key \in RedLayouts
    /\ ccall.banner_key \in {"1200x1200", "1200x1500"}

TallDisclaimerCall == ccall.impl = "main" /\ ccall.banner_key = "1080x1920"

\* The bottom edge of a drawn line.
BottomEdge(o) == o.y + BBoxBottom(o.text, load_font("", o.size))

\* C25: for Yango_Red and Yango_pro_Red at 1200x1200 and 1200x1500 every
\* disclaimer line ends 40 (80) px from the right edge, and there and at
\* 1080x1920 the bottom edge of the last disclaimer line is at or above
\* the canvas height minus the margin (40, 80, 50 px).
C25_DisclaimerWithinMargins ==
    ((RedDisclaimerCall \/ TallDisclaimerCall) /\ DisclaimerOps # <<>>) =>
        /\ RedDisclaimerCall =>
              \A i \in 1..Len(DisclaimerOps) :
                  DisclaimerOps[i].x + LineWidth(DisclaimerOps[i]) =
                      CanvasWidth(ccall.banner_key) - DisclaimerMargin
        /\ BottomEdge(DisclaimerOps[Len(DisclaimerOps)]) <=
              CanvasHeight(ccall.banner_key) - DisclaimerMargin

(***************************************************************************)
(* Properties of draw_text_with_highlights.                                *)
(***************************************************************************)
DrawDone == hcall.done /\ hcall.fn = "draw_text_with_highlights"

RECURSIVE DrawnText(_)
DrawnText(segments) ==
    IF segments = <<>> THEN <<>> ELSE Head(segments).text \o DrawnText(Tail(segments))

\* C28: draw_text_with_highlights draws every character of the line
\* exactly once and in order: the concatenation of the drawn segments is
\* the line, and each segment starts at the x where the previous one ended.
C28_DrawsLineOnce ==
    DrawDone =>
        /\ DrawnText(hcall.drawn) = LineText(hcall.line)
        /\ \A i \in 1..Len(hcall.drawn) - 1 :
              hcall.drawn[i + 1].x =
                  hcall.drawn[i].x + text_width(hcall.drawn[i].text, UnitFont)

(***************************************************************************)
(* Measured and drawn blocks of the anchor path of compose (main.py).      *)
(***************************************************************************)
AnchorCall == ccall.impl = "main" /\ ccall.out.path = "anchor"

\* The drawing branch of the anchor path that the call took.
AnchorBranch ==
    IF ccall.banner_key = "1080x1920" THEN "1080x1920"
    ELSE IF ccall.layout_key \in ProAppLayouts THEN "pro_app"
    ELSE IF ccall.layout_key \in RedLayouts THEN "red"
    ELSE "standard"

\* C29: in every drawing branch of the anchor path the blocks measured
\* into total_h are exactly the blocks drawn in the stack, so the cursor
\* after the last stacked line is the stack's starting y plus total_h.
C29_MeasuredBlocksAreDrawn ==
    AnchorCall =>
        /\ ccall.out.drawn = ccall.out.measured
        /\ ccall.out.cursor = ccall.out.start + ccall.out.total_h

(***************************************************************************)
(* Interleaved handle_photo invocations of bot.py.                         *)
(***************************************************************************)
\* The invocation of user u replied with a photo and has returned.
PhotoReplied(u) == bot.run[u].pc = "idle" /\ bot.run[u].sent.kind = "photo"

====
